---- MODULE Spec2Model ----
(***************************************************************************)
(* TileHarvester: the concurrent fetch engine of src/downloader/base.py    *)
(* (class TileDownloader): task source, worker pool, progress ledger,      *)
(* sink and the pause / resume / cancel controller.                        *)
(***************************************************************************)
EXTENDS Integers, Sequences, FiniteSets, TLC

(***************************************************************************)
(* Bounds of the model.                                                    *)
(***************************************************************************)
\* number of worker threads started by start()
max_threads == 2
\* attempts of the per-tile retry loop (constructor argument `retries`)
retries == 2
\* 8 KiB chunks in the body of a complete tile
NumChunks == 2
\* calls of pause() in one behaviour
MaxPauses == 1
\* runs (constructions of a TileDownloader on the same output) in one behaviour
MaxRuns == 2
\* largest counter value drawn for the ledger states of SpecMark
MaxCount == 1
\* largest zoom level of the tiles whose MBTiles row is computed in SpecPut
MaxZoom == 3

(***************************************************************************)
(* Program constants.                                                      *)
(***************************************************************************)
\* _mark_tile_processed: size at which the in-memory set stops growing
max_tiles_in_memory == 1000000
\* __init__: one MBTiles commit per this many successful puts (source value
\* 1000, scaled so that the batched commit happens within the run)
transaction_batch_size == 3
\* _worker: one ledger flush per this many completions of a worker (source
\* value 200, scaled the same way; it stays below transaction_batch_size)
save_interval == 2
\* _load_processed_tiles_for_zoom_range: rows per page of the paged SELECT
\* (source value 10000, scaled so that a load takes several pages)
batch_size == 2
\* provider zoom bounds (CustomProvider defaults)
provider_min_zoom == 0
provider_max_zoom == 23
\* BingProvider: its quadkey URL has no tile at zoom 0
bing_min_zoom == 1
\* _create_request_session: Retry(total=3) of the HTTPAdapter mounted on the
\* session of every worker
adapter_total == 3

(***************************************************************************)
(* The request: bbox x zoom range, as enumerated by add_tasks_for_bbox.    *)
(***************************************************************************)
min_zoom == 0
max_zoom == 1

\* TileMath.calculate_tiles_in_bbox for the bbox of the run: the (x, y) of
\* one zoom level in row-major order
xy_tiles(zoom) ==
    IF zoom = 0 THEN << <<0, 0>> >> ELSE << <<0, 0>>, <<1, 0>> >>

Tile(xy, zoom) == <<xy[1], xy[2], zoom>>

Tiles == UNION { { Tile(xy_tiles(z)[i], z) : i \in 1..Len(xy_tiles(z)) } : z \in min_zoom..max_zoom }

None == <<>>

Workers == 1..max_threads

Statuses == {"success", "failed", "skipped"}

VARIABLES
    save_format,          \* "directory", "mbtiles", or "sharded" (MBTiles path with {z})
    server,               \* behaviour of the HTTP endpoint during the behaviour
    stop_event,           \* threading.Event: TRUE when set
    pause_event,          \* threading.Event: TRUE when set (= not paused)
    task_queue,           \* Queue of (x, y, z)
    processed_tiles,      \* in-memory set of processed keys
    other_tiles,          \* keys of processed_tiles outside Tiles (only their number)
    downloaded_count, failed_count, skipped_count, total_tasks, total_bytes,
    transaction_counter,
    sink,                 \* tile -> chunks visible in the sink (0: absent)
    sink_committed,       \* tile -> chunks durable in the sink
    mbtiles_open,         \* mbtiles_conn is an open connection
    progress_open,        \* progress_conn is an open connection
    ledger,               \* committed rows of processed_tiles in the progress db
    enum_pc, enum_zoom, enum_idx, total_tiles,   \* add_tasks_for_bbox
    wpc, wtask, wattempt, wdata, wbatch,         \* _worker, per thread
    cancel_pc,            \* position of cancel()
    run_no, prev_run,     \* which construction this is, how the previous one ended
    pauses,               \* number of pause() calls so far
    gets,                 \* history: GET requests issued per tile in this run
    counted,              \* history: counter increments caused per tile in this run
    mark_log,             \* history: <<tile, status, cause>> of every mark in this run
    last_mark,            \* history: the last direct call of _mark_tile_processed
    flushed,              \* history: keys handed to _save_progress in this run
    progress,             \* the last snapshot given to progress_callback
    cancel_stats,         \* the statistics cancel() returned
    batch_stats,          \* the statistics BatchDownloader.download_bbox returned
    monitor_pc,           \* app.py: position of the monitor_download thread
    finals,               \* app.py: the updates sent with completed=True
    last_put,             \* history: the last direct computation of an MBTiles row
    last_load,            \* history: the last direct call of the ledger load
    provider_name,        \* the provider of the run: "custom" or "bing"
    progress_callback,    \* what the callback given to the constructor does: "returns" or "raises"
    wreg,                 \* per thread: the value read by an augmented assignment (+=)
    wstatus,              \* per thread: the status the thread marks its tile with
    mbtiles_connections,  \* sharded MBTiles: zoom -> id of the connection in the dict (0: none)
    conn_opened,          \* sharded MBTiles: zoom -> number of connections opened so far
    wconn,                \* per thread: the connection its local mbtiles_conn is bound to
    conn_rows,            \* sharded MBTiles: <<tile, <<zoom, id>>>> of the uncommitted INSERTs
    provider_extension,   \* the registered provider object: its extension
    provider_is_tms,      \* the registered provider object: its is_tms flag
    downloader_is_tms,    \* TileDownloader.is_tms of the current downloader
    last_call             \* history: the last direct call of a function of the providers or of TileMath

envVars     == <<save_format, server, provider_name, progress_callback>>
flagVars    == <<stop_event, pause_event>>
ledgerVars  == <<processed_tiles, other_tiles, downloaded_count, failed_count, skipped_count>>
sinkVars    == <<sink, sink_committed, mbtiles_open, transaction_counter>>
enumVars    == <<enum_pc, enum_zoom, enum_idx, total_tiles>>
workerVars  == <<wpc, wtask, wattempt, wdata, wbatch>>
histVars    == <<gets, counted, mark_log>>
appVars     == <<cancel_stats, batch_stats, monitor_pc, finals>>
callVars    == <<last_put, last_load>>
raceVars    == <<wreg, wstatus>>
shardVars   == <<mbtiles_connections, conn_opened, wconn, conn_rows>>
provVars    == <<provider_extension, provider_is_tms, downloader_is_tms, last_call>>
auxVars     == <<raceVars, shardVars, provVars>>
engineVars  == <<envVars, flagVars, task_queue, ledgerVars, total_tasks, total_bytes,
                 sinkVars, progress_open, ledger, enumVars, workerVars,
                 cancel_pc, run_no, prev_run, pauses, histVars, last_mark,
                 flushed, progress>>

vars == <<save_format, server, stop_event, pause_event, task_queue,
          processed_tiles, other_tiles, downloaded_count, failed_count,
          skipped_count, total_tasks, total_bytes, transaction_counter,
          sink, sink_committed, mbtiles_open, progress_open, ledger,
          enum_pc, enum_zoom, enum_idx, total_tiles,
          wpc, wtask, wattempt, wdata, wbatch,
          cancel_pc, run_no, prev_run, pauses, gets, counted, mark_log, last_mark,
          flushed, progress, cancel_stats, batch_stats, monitor_pc, finals,
          last_put, last_load, provider_name, progress_callback, wreg, wstatus,
          mbtiles_connections, conn_opened, wconn, conn_rows,
          provider_extension, provider_is_tms, downloader_is_tms, last_call>>

is_mbtiles == save_format \in {"mbtiles", "sharded"}

\* __init__: the output path of an MBTiles run contains "{z}"
enable_sharding == save_format = "sharded"

(***************************************************************************)
(* _mark_tile_processed as a function of the in-memory ledger state        *)
(* L = [processed_tiles, other_tiles, downloaded_count, failed_count,      *)
(*      skipped_count].                                                    *)
(***************************************************************************)
Bump(L, status) ==
    [L EXCEPT !.downloaded_count = IF status = "success" THEN @ + 1 ELSE @,
              !.failed_count     = IF status = "failed"  THEN @ + 1 ELSE @,
              !.skipped_count    = IF status = "skipped" THEN @ + 1 ELSE @]

\* variant: a key that is already in the set is counted again whatever the status
mark_tile_processed_recount(L, tile_key, status) ==
    IF tile_key \notin L.processed_tiles
    THEN IF Cardinality(L.processed_tiles) + L.other_tiles >= max_tiles_in_memory
         THEN Bump(L, status)
         ELSE Bump([L EXCEPT !.processed_tiles = @ \cup {tile_key}], status)
    ELSE Bump(L, status)

mark_tile_processed(L, tile_key, status) ==
    IF tile_key \notin L.processed_tiles
    THEN IF Cardinality(L.processed_tiles) + L.other_tiles >= max_tiles_in_memory
         THEN Bump(L, status)
         ELSE Bump([L EXCEPT !.processed_tiles = @ \cup {tile_key}], status)
    ELSE IF status = "skipped" THEN Bump(L, status) ELSE L

CurrentLedger ==
    [processed_tiles |-> processed_tiles, other_tiles |-> other_tiles,
     downloaded_count |-> downloaded_count, failed_count |-> failed_count,
     skipped_count |-> skipped_count]

Counted(L) == L.downloaded_count + L.failed_count + L.skipped_count

\* a worker (or the task source) marks tile t: the ledger variables take the
\* value _mark_tile_processed computes, the history records the call
Mark(t, status, cause) ==
    LET L2 == mark_tile_processed(CurrentLedger, t, status) IN
    /\ processed_tiles' = L2.processed_tiles
    /\ other_tiles' = other_tiles
    /\ downloaded_count' = L2.downloaded_count
    /\ failed_count' = L2.failed_count
    /\ skipped_count' = L2.skipped_count
    /\ counted' = [counted EXCEPT ![t] = @ + (Counted(L2) - Counted(CurrentLedger))]
    /\ mark_log' = mark_log \cup {<<t, status, cause>>}

\* tile t is marked with `status`, the _update_progress that follows raises
\* inside the per-task try, and the handler of line 1384 marks the tile
\* failed before its own _update_progress raises again
MarkRaised(t, status, cause) ==
    LET L2 == mark_tile_processed(mark_tile_processed(CurrentLedger, t, status), t, "failed") IN
    /\ processed_tiles' = L2.processed_tiles
    /\ other_tiles' = other_tiles
    /\ downloaded_count' = L2.downloaded_count
    /\ failed_count' = L2.failed_count
    /\ skipped_count' = L2.skipped_count
    /\ counted' = [counted EXCEPT ![t] = @ + (Counted(L2) - Counted(CurrentLedger))]
    /\ mark_log' = mark_log \cup {<<t, status, cause>>, <<t, "failed", "raised">>}

(***************************************************************************)
(* _save_progress.  Its INSERT OR IGNORE of the keys of processed_tiles    *)
(* never runs.  The rows come from the nested generator tile_generator,    *)
(* whose first statement reads `time`; `import time` at lines 513 and 560  *)
(* makes `time` a local of _save_progress that is not yet bound when the   *)
(* generator starts, so the first row raises NameError.  The transaction   *)
(* is rolled back (line 505); the handler of line 509 names sqlite3, which *)
(* is imported neither by this function nor by the module, so a second     *)
(* NameError reaches the outer handler (line 663), which logs it.  The     *)
(* rows of the progress db stay as they were, with an open connection as   *)
(* with a closed one; last_saved_tiles_count is not updated either.        *)
(***************************************************************************)
\* variant: the keys are inserted and committed, as lines 478-502 are written to do
save_progress_stored(rows, keys, open) == IF open THEN rows \cup keys ELSE rows

save_progress(rows, keys, open) == rows

\* the status column of the row tile_generator yields for a key of
\* processed_tiles: the literal 'success', whatever the key was marked with
row_status(tile_key) == "success"

\* the keys that calls of _save_progress were given to store while
\* progress_conn was an open connection
handed(before, keys, open) == IF open THEN before \cup keys ELSE before

(***************************************************************************)
(* get_statistics and _update_progress                                     *)
(***************************************************************************)
get_statistics(L, total) ==
    [downloaded |-> L.downloaded_count, failed |-> L.failed_count,
     skipped |-> L.skipped_count, total |-> total,
     remaining |-> IF total - Counted(L) > 0 THEN total - Counted(L) ELSE 0]

\* variant: the snapshot counts the tile that the worker takes next as well
update_progress_ahead(old, t, L, total, bytes) ==
    IF total > 0
    THEN [tile |-> t, processed |-> Counted(L) + 1, total |-> total, total_bytes |-> bytes]
    ELSE old

\* the snapshot progress_callback receives (no callback while total_tasks = 0);
\* t is the tile whose handling led to the call
update_progress(old, t, L, total, bytes) ==
    IF total > 0
    THEN [tile |-> t, processed |-> Counted(L), total |-> total, total_bytes |-> bytes]
    ELSE old

\* _update_progress: the call of progress_callback raises (there is no call
\* while total_tasks = 0, and no try around the call)
callback_raises == progress_callback = "raises" /\ total_tasks > 0

(***************************************************************************)
(* _load_processed_tiles_for_zoom_range: SELECT ... WHERE z >= ? AND       *)
(* z <= ? LIMIT batch_size OFFSET offset, page after page until a page is  *)
(* empty.  The statement has no ORDER BY: `scan` is the order in which     *)
(* SQLite walks the table, any order of the rows, the same for every page  *)
(* (the rows do not change during the load, see _save_progress).  Without  *)
(* a connection the function reads the progress db as JSON, fails and      *)
(* returns the empty set.                                                  *)
(***************************************************************************)
\* the orders in which a table holding `rows` can be walked
Scans(rows) ==
    { f \in [1..Cardinality(rows) -> rows] :
        \A i, j \in 1..Cardinality(rows) : f[i] = f[j] => i = j }

\* rows offset+1 .. offset+limit of a result
page(result, limit, offset) ==
    SubSeq(result, offset + 1,
           IF offset + limit < Len(result) THEN offset + limit ELSE Len(result))

RECURSIVE load_pages(_, _, _)
load_pages(result, offset, loaded) ==
    LET tiles == page(result, batch_size, offset) IN
    IF tiles = <<>>
    THEN loaded
    ELSE load_pages(result, offset + batch_size,
                    loaded \cup { tiles[i] : i \in 1..Len(tiles) })

in_zoom_range(t, zmin, zmax) == t[3] >= zmin /\ t[3] <= zmax

\* variant: only the first page is read
load_processed_tiles_first_page(scan, zmin, zmax, open) ==
    IF open
    THEN LET tiles == page(SelectSeq(scan, LAMBDA t : in_zoom_range(t, zmin, zmax)), batch_size, 0)
         IN  { tiles[i] : i \in 1..Len(tiles) }
    ELSE {}

load_processed_tiles_for_zoom_range(scan, zmin, zmax, open) ==
    IF open
    THEN load_pages(SelectSeq(scan, LAMBDA t : in_zoom_range(t, zmin, zmax)), 0, {})
    ELSE {}

Zero == [t \in Tiles |-> 0]

ZoomRange == min_zoom..max_zoom

\* __init__: no shard connection (mbtiles_connections = {}); the locals of
\* the worker threads are unbound; the provider of the run as registered
\* (extension jpg, is_tms False) and a downloader constructed with is_tms False
AuxInit ==
    /\ wreg = [w \in Workers |-> 0]
    /\ wstatus = [w \in Workers |-> None]
    /\ mbtiles_connections = [z \in ZoomRange |-> 0]
    /\ conn_opened = [z \in ZoomRange |-> 0]
    /\ wconn = [w \in Workers |-> None]
    /\ conn_rows = {}
    /\ provider_extension = "jpg"
    /\ provider_is_tms = FALSE
    /\ downloader_is_tms = FALSE
    /\ last_call = None

\* the run of the other scenarios: CustomProvider, a callback that returns
Defaults == provider_name = "custom" /\ progress_callback = "returns"

\* __init__: the state of a freshly constructed TileDownloader
Constructed ==
    /\ stop_event = FALSE
    /\ pause_event = TRUE
    /\ task_queue = <<>>
    /\ processed_tiles = {}
    /\ other_tiles = 0
    /\ downloaded_count = 0 /\ failed_count = 0 /\ skipped_count = 0
    /\ total_tasks = 0 /\ total_bytes = 0
    /\ transaction_counter = 0
    /\ mbtiles_open = (is_mbtiles /\ ~enable_sharding)
    /\ progress_open = TRUE
    /\ enum_pc = "idle" /\ enum_zoom = min_zoom /\ enum_idx = 1 /\ total_tiles = 0
    /\ wpc = [w \in Workers |-> "idle"]
    /\ wtask = [w \in Workers |-> None]
    /\ wattempt = [w \in Workers |-> 0]
    /\ wdata = [w \in Workers |-> 0]
    /\ wbatch = [w \in Workers |-> 0]
    /\ cancel_pc = "none"
    /\ gets = Zero /\ counted = Zero /\ mark_log = {}
    /\ last_mark = None
    /\ flushed = {} /\ progress = None
    /\ cancel_stats = None /\ batch_stats = None
    /\ monitor_pc = "poll" /\ finals = <<>>
    /\ last_put = None /\ last_load = None
    /\ AuxInit

Init ==
    /\ save_format \in {"directory", "mbtiles"}
    /\ server \in {"ok", "notfound", "down", "flaky"}
    /\ provider_name \in {"custom", "bing"}
    /\ progress_callback \in {"returns", "raises"}
    /\ sink = Zero /\ sink_committed = Zero
    /\ ledger = {}
    /\ run_no = 1 /\ prev_run = "none" /\ pauses = 0
    /\ Constructed

(***************************************************************************)
(* Controller: start, pause, resume, cancel.                               *)
(***************************************************************************)
\* start(): creates and starts the worker threads
Start ==
    /\ \A w \in Workers : wpc[w] = "idle"
    /\ wpc' = [w \in Workers |-> "loop"]
    /\ UNCHANGED <<envVars, flagVars, task_queue, ledgerVars, total_tasks, total_bytes,
                   sinkVars, progress_open, ledger, enumVars,
                   wtask, wattempt, wdata, wbatch,
                   cancel_pc, run_no, prev_run, pauses, histVars, last_mark, flushed, progress, appVars, callVars, auxVars>>

\* pause(): clears pause_event and saves the progress
Pause ==
    /\ pauses < MaxPauses
    /\ cancel_pc = "none"
    /\ pause_event
    /\ pause_event' = FALSE
    /\ pauses' = pauses + 1
    /\ ledger' = save_progress(ledger, processed_tiles, progress_open)
    /\ flushed' = handed(flushed, processed_tiles, progress_open)
    /\ UNCHANGED <<envVars, stop_event, task_queue, ledgerVars, total_tasks, total_bytes,
                   sinkVars, progress_open, enumVars, workerVars,
                   cancel_pc, run_no, prev_run, histVars, last_mark, progress, appVars, callVars, auxVars>>

\* resume(): sets pause_event
Resume ==
    /\ cancel_pc = "none"
    /\ ~pause_event
    /\ pause_event' = TRUE
    /\ UNCHANGED <<envVars, stop_event, task_queue, ledgerVars, total_tasks, total_bytes,
                   sinkVars, progress_open, ledger, enumVars, workerVars,
                   cancel_pc, run_no, prev_run, pauses, histVars, last_mark, flushed, progress, appVars, callVars, auxVars>>

\* cancel(), up to its sleep: saves the progress, sets stop_event, sets pause_event
CancelSignal ==
    /\ cancel_pc = "none"
    /\ ledger' = save_progress(ledger, processed_tiles, progress_open)
    /\ flushed' = handed(flushed, processed_tiles, progress_open)
    /\ stop_event' = TRUE
    /\ pause_event' = TRUE
    /\ cancel_pc' = "sleep"
    /\ UNCHANGED <<envVars, task_queue, ledgerVars, total_tasks, total_bytes,
                   sinkVars, progress_open, enumVars, workerVars,
                   run_no, prev_run, pauses, histVars, last_mark, progress, appVars, callVars, auxVars>>

\* a shard connection <<zoom, id>> is the one stored in mbtiles_connections
in_dict(c, dict) == c[2] = dict[c[1]]

\* conn.commit() on the connections of `dict`: their uncommitted rows become
\* durable
commit_shards(committed, rows, dict) ==
    [t \in Tiles |-> IF \E r \in rows : r[1] = t /\ in_dict(r[2], dict)
                     THEN sink[t] ELSE committed[t]]

\* cancel(), after its sleep: commits and closes the MBTiles connection (in
\* sharded mode every connection of mbtiles_connections, then clears the
\* dict), closes the progress connection, returns the statistics
CancelClose ==
    /\ cancel_pc = "sleep"
    /\ cancel_pc' = "done"
    /\ sink_committed' = IF enable_sharding
                         THEN commit_shards(sink_committed, conn_rows, mbtiles_connections)
                         ELSE IF is_mbtiles /\ mbtiles_open THEN sink ELSE sink_committed
    /\ conn_rows' = IF enable_sharding
                    THEN { r \in conn_rows : ~in_dict(r[2], mbtiles_connections) }
                    ELSE conn_rows
    /\ mbtiles_connections' = IF enable_sharding
                              THEN [z \in ZoomRange |-> 0]
                              ELSE mbtiles_connections
    /\ mbtiles_open' = FALSE
    /\ progress_open' = FALSE
    /\ cancel_stats' = get_statistics(CurrentLedger, total_tasks)
    /\ UNCHANGED <<envVars, flagVars, task_queue, ledgerVars, total_tasks, total_bytes,
                   sink, transaction_counter, ledger, enumVars, workerVars,
                   run_no, prev_run, pauses, histVars, last_mark, flushed, progress,
                   batch_stats, monitor_pc, finals, callVars, provVars, raceVars, conn_opened, wconn>>

(***************************************************************************)
(* Task source: add_tasks_for_bbox.                                        *)
(***************************************************************************)
\* the load of the ledger rows of the zoom range, which replaces processed_tiles
EnumLoad ==
    /\ enum_pc = "idle"
    /\ \E scan \in Scans(ledger) :
         processed_tiles' = load_processed_tiles_for_zoom_range(scan, min_zoom, max_zoom, progress_open)
    /\ enum_pc' = "zoom"
    /\ enum_zoom' = min_zoom
    /\ total_tiles' = 0
    /\ UNCHANGED <<envVars, flagVars, task_queue, other_tiles, downloaded_count, failed_count,
                   skipped_count, total_tasks, total_bytes, sinkVars, progress_open, ledger,
                   enum_idx, workerVars, cancel_pc, run_no, prev_run, pauses, histVars, last_mark, flushed, progress, appVars, callVars, auxVars>>

\* head of `for zoom in range(min_zoom, max_zoom + 1)`; when the loop is left
\* total_tasks is set
EnumZoom ==
    /\ enum_pc = "zoom"
    /\ IF enum_zoom > max_zoom \/ stop_event
       THEN /\ total_tasks' = total_tiles
            /\ enum_pc' = "done"
            /\ UNCHANGED <<total_tiles, enum_idx>>
       ELSE /\ total_tiles' = total_tiles + Len(xy_tiles(enum_zoom))
            /\ enum_idx' = 1
            /\ enum_pc' = "tile"
            /\ UNCHANGED total_tasks
    /\ UNCHANGED <<envVars, flagVars, task_queue, ledgerVars, total_bytes, sinkVars,
                   progress_open, ledger, enum_zoom, workerVars,
                   cancel_pc, run_no, prev_run, pauses, histVars, last_mark, flushed, progress, appVars, callVars, auxVars>>

\* one iteration of `for i, (x, y) in enumerate(xy_tiles)`
EnumTile ==
    /\ enum_pc = "tile"
    /\ IF enum_idx > Len(xy_tiles(enum_zoom)) \/ stop_event
       THEN /\ enum_zoom' = enum_zoom + 1
            /\ enum_pc' = "zoom"
            /\ UNCHANGED <<enum_idx, task_queue, skipped_count, counted>>
       ELSE LET t == Tile(xy_tiles(enum_zoom)[enum_idx], enum_zoom) IN
            /\ enum_idx' = enum_idx + 1
            /\ UNCHANGED <<enum_zoom, enum_pc>>
            /\ IF t \in processed_tiles
               THEN /\ skipped_count' = skipped_count + 1
                    /\ counted' = [counted EXCEPT ![t] = @ + 1]
                    /\ UNCHANGED task_queue
               ELSE /\ task_queue' = Append(task_queue, t)
                    /\ UNCHANGED <<skipped_count, counted>>
    /\ UNCHANGED <<envVars, flagVars, processed_tiles, other_tiles, downloaded_count,
                   failed_count, total_tasks, total_bytes, sinkVars, progress_open, ledger,
                   total_tiles, workerVars, cancel_pc, run_no, prev_run, pauses,
                   gets, mark_log, last_mark, flushed, progress, appVars, callVars, auxVars>>

(***************************************************************************)
(* Worker pool: _worker, one action per position of the thread.            *)
(***************************************************************************)
\* what a GET can return, by the behaviour of the endpoint
Responses ==
    CASE server = "ok"       -> {"ok"}
      [] server = "notfound" -> {"notfound"}
      [] server = "down"     -> {"exception"}
      [] OTHER               -> {"ok", "notfound", "error", "nonimage", "empty", "exception"}

Go(w, pc) == wpc' = [wpc EXCEPT ![w] = pc]

\* `continue` of the attempt loop
NextAttempt(w) ==
    /\ Go(w, "attempt")
    /\ wattempt' = [wattempt EXCEPT ![w] = @ + 1]

\* `while not self.stop_event.is_set()` and the first pause check
WorkerLoop(w) ==
    /\ wpc[w] = "loop"
    /\ Go(w, IF stop_event THEN "exit" ELSE IF ~pause_event THEN "wait_top" ELSE "get")
    /\ UNCHANGED <<envVars, flagVars, task_queue, ledgerVars, total_tasks, total_bytes,
                   sinkVars, progress_open, ledger, enumVars, wtask, wattempt, wdata, wbatch,
                   cancel_pc, run_no, prev_run, pauses, histVars, last_mark, flushed, progress, appVars, callVars, auxVars>>

\* pause_event.wait() at the top of the loop returns
WorkerWaitTop(w) ==
    /\ wpc[w] = "wait_top"
    /\ pause_event
    /\ Go(w, IF stop_event THEN "exit" ELSE "loop")
    /\ UNCHANGED <<envVars, flagVars, task_queue, ledgerVars, total_tasks, total_bytes,
                   sinkVars, progress_open, ledger, enumVars, wtask, wattempt, wdata, wbatch,
                   cancel_pc, run_no, prev_run, pauses, histVars, last_mark, flushed, progress, appVars, callVars, auxVars>>

\* task_queue.get(timeout=0.2): a task, or Empty
WorkerGet(w) ==
    /\ wpc[w] = "get"
    /\ IF task_queue # <<>>
       THEN /\ wtask' = [wtask EXCEPT ![w] = Head(task_queue)]
            /\ task_queue' = Tail(task_queue)
            /\ Go(w, "got")
       ELSE /\ Go(w, IF stop_event THEN "exit" ELSE "loop")
            /\ UNCHANGED <<wtask, task_queue>>
    /\ UNCHANGED <<envVars, flagVars, ledgerVars, total_tasks, total_bytes,
                   sinkVars, progress_open, ledger, enumVars, wattempt, wdata, wbatch,
                   cancel_pc, run_no, prev_run, pauses, histVars, last_mark, flushed, progress, appVars, callVars, auxVars>>

\* [provider.min_zoom, provider.max_zoom] of the provider of the run
provider_zoom(name) ==
    IF name = "bing" THEN <<bing_min_zoom, provider_max_zoom>>
                     ELSE <<provider_min_zoom, provider_max_zoom>>

\* variant: every zoom level is taken as supported
zoom_supported_any(z, bounds) == TRUE

\* `self.provider.min_zoom <= z <= self.provider.max_zoom`
zoom_supported(z, bounds) == bounds[1] <= z /\ z <= bounds[2]

\* a task that is skipped: _mark_tile_processed(skipped), _update_progress,
\* task_done, processed_in_batch += 1, `continue` (the periodic save of the
\* end of the iteration is not reached)
WorkerSkip(w, t, cause) ==
    IF callback_raises
    THEN /\ MarkRaised(t, "skipped", cause)
         /\ Go(w, "raised")
         /\ UNCHANGED <<progress, wbatch, wtask>>
    ELSE /\ Mark(t, "skipped", cause)
         /\ progress' = update_progress(progress, t, mark_tile_processed(CurrentLedger, t, "skipped"),
                                        total_tasks, total_bytes)
         /\ wbatch' = [wbatch EXCEPT ![w] = @ + 1]
         /\ wtask' = [wtask EXCEPT ![w] = None]
         /\ Go(w, "loop")

\* after the get: second pause check (task put back), zoom check,
\* existing-file check of the directory sink
WorkerGot(w) ==
    /\ wpc[w] = "got"
    /\ LET t == wtask[w] IN
       IF ~pause_event
       THEN /\ task_queue' = Append(task_queue, t)
            /\ wtask' = [wtask EXCEPT ![w] = None]
            /\ Go(w, "wait_got")
            /\ UNCHANGED <<ledgerVars, histVars, wattempt, wdata, wbatch, progress>>
       ELSE IF ~zoom_supported(t[3], provider_zoom(provider_name))
       THEN /\ WorkerSkip(w, t, "zoom")
            /\ UNCHANGED <<task_queue, gets, wattempt, wdata>>
       ELSE IF ~is_mbtiles /\ sink[t] > 0
       THEN /\ WorkerSkip(w, t, "exists")
            /\ UNCHANGED <<task_queue, gets, wattempt, wdata>>
       ELSE /\ Go(w, "attempt")
            /\ wattempt' = [wattempt EXCEPT ![w] = 0]
            /\ wdata' = [wdata EXCEPT ![w] = 0]
            /\ UNCHANGED <<task_queue, wtask, ledgerVars, histVars, wbatch, progress>>
    /\ UNCHANGED <<envVars, flagVars, total_tasks, total_bytes, sinkVars, progress_open,
                   ledger, enumVars, cancel_pc, run_no, prev_run, pauses, last_mark,
                   flushed, appVars, callVars, auxVars>>

\* pause_event.wait() after the task was put back returns
WorkerWaitGot(w) ==
    /\ wpc[w] = "wait_got"
    /\ pause_event
    /\ Go(w, IF stop_event THEN "exit" ELSE "loop")
    /\ UNCHANGED <<envVars, flagVars, task_queue, ledgerVars, total_tasks, total_bytes,
                   sinkVars, progress_open, ledger, enumVars, wtask, wattempt, wdata, wbatch,
                   cancel_pc, run_no, prev_run, pauses, histVars, last_mark, flushed, progress, appVars, callVars, auxVars>>

\* what the attempt does with a response: status check (403/404 leave the
\* attempt loop, any other non-200 goes to the next attempt), Content-Type
\* check, then the body is read; an exception of the GET goes to the handlers
\* variant: 403/404 are retried like any other non-200 status
response_outcome_retry_all(r) ==
    CASE r = "exception" -> "raise"
      [] r = "notfound"  -> "continue"
      [] r = "error"     -> "continue"
      [] r = "nonimage"  -> "continue"
      [] r = "empty"     -> "read_nothing"
      [] OTHER           -> "read"

response_outcome(r) ==
    CASE r = "exception" -> "raise"
      [] r = "notfound"  -> "break"
      [] r = "error"     -> "continue"
      [] r = "nonimage"  -> "continue"
      [] r = "empty"     -> "read_nothing"
      [] OTHER           -> "read"

\* the GET requests one call of session.get sends.  The adapter of the session
\* repeats a request that ends in a connection error, a read timeout or a
\* status of status_forcelist (429, 500, 502, 503, 504) until adapter_total
\* retries are used up and only then raises; the status check of _worker sees
\* what the last request returned.  An endpoint that is down fails every
\* request; an endpoint that always answers 200 or 404 is asked once.
wire_requests(srv, r) ==
    CASE srv \in {"ok", "notfound"} -> {1}
      [] r = "exception"            -> {1 + adapter_total}
      [] OTHER                      -> 1..(1 + adapter_total)

\* session.get and what follows it up to the chunk loop
DoGet(w) ==
    \E r \in Responses : \E n \in wire_requests(server, r) :
      /\ gets' = [gets EXCEPT ![wtask[w]] = @ + n]
      /\ CASE response_outcome(r) = "read"     -> Go(w, "chunk") /\ wdata' = [wdata EXCEPT ![w] = 0] /\ UNCHANGED wattempt
           [] response_outcome(r) = "break"    -> Go(w, "failed") /\ UNCHANGED <<wattempt, wdata>>
           [] response_outcome(r) = "raise"    -> Go(w, "backoff") /\ UNCHANGED <<wattempt, wdata>>
           [] response_outcome(r) = "read_nothing" ->
                                 /\ IF stop_event
                                    THEN Go(w, "failed") /\ UNCHANGED wattempt
                                    ELSE NextAttempt(w)
                                 /\ UNCHANGED wdata
           [] OTHER                            -> NextAttempt(w) /\ UNCHANGED wdata

\* head of `for attempt in range(self.retries)`: stop check, pause check,
\* then the GET of this attempt
WorkerAttempt(w) ==
    /\ wpc[w] = "attempt"
    /\ IF wattempt[w] >= retries \/ stop_event
       THEN Go(w, "failed") /\ UNCHANGED <<wattempt, wdata, gets>>
       ELSE IF ~pause_event
       THEN Go(w, "wait_attempt") /\ UNCHANGED <<wattempt, wdata, gets>>
       ELSE DoGet(w)
    /\ UNCHANGED <<envVars, flagVars, task_queue, ledgerVars, total_tasks, total_bytes,
                   sinkVars, progress_open, ledger, enumVars, wtask, wbatch,
                   cancel_pc, run_no, prev_run, pauses, counted, mark_log, last_mark, flushed, progress, appVars, callVars, auxVars>>

\* pause_event.wait(timeout=1) returns: resumed (the attempt goes on with its
\* GET), or still paused after the timeout (the tile is marked skipped and
\* the thread returns)
WorkerWaitAttempt(w) ==
    /\ wpc[w] = "wait_attempt"
    /\ IF pause_event
       THEN /\ DoGet(w)
            /\ UNCHANGED <<ledgerVars, counted, mark_log, wtask, progress>>
       ELSE IF callback_raises
       THEN /\ MarkRaised(wtask[w], "skipped", "pause")
            /\ Go(w, "raised")
            /\ UNCHANGED <<gets, wattempt, wdata, wtask, progress>>
       ELSE /\ Mark(wtask[w], "skipped", "pause")
            /\ progress' = update_progress(progress, wtask[w],
                                           mark_tile_processed(CurrentLedger, wtask[w], "skipped"),
                                           total_tasks, total_bytes)
            /\ wtask' = [wtask EXCEPT ![w] = None]
            /\ Go(w, "returned")
            /\ UNCHANGED <<gets, wattempt, wdata>>
    /\ UNCHANGED <<envVars, flagVars, task_queue, total_tasks, total_bytes,
                   sinkVars, progress_open, ledger, enumVars, wbatch,
                   cancel_pc, run_no, prev_run, pauses, last_mark, flushed, appVars, callVars, auxVars>>

\* one iteration of `for chunk in response.iter_content(...)`
WorkerChunk(w) ==
    /\ wpc[w] = "chunk"
    /\ IF stop_event
       THEN /\ Go(w, "failed")
            /\ UNCHANGED <<task_queue, wdata>>
       ELSE IF ~pause_event
       THEN /\ task_queue' = Append(task_queue, wtask[w])
            /\ Go(w, "wait_chunk")
            /\ UNCHANGED wdata
       ELSE /\ wdata' = [wdata EXCEPT ![w] = @ + 1]
            /\ Go(w, IF wdata[w] + 1 = NumChunks THEN "store" ELSE "chunk")
            /\ UNCHANGED task_queue
    /\ UNCHANGED <<envVars, flagVars, ledgerVars, total_tasks, total_bytes,
                   sinkVars, progress_open, ledger, enumVars, wtask, wattempt, wbatch,
                   cancel_pc, run_no, prev_run, pauses, histVars, last_mark, flushed, progress, appVars, callVars, auxVars>>

\* pause_event.wait() in the chunk loop returns: the thread returns when
\* stopped, otherwise it leaves the chunk loop and goes on with what it has read
WorkerWaitChunk(w) ==
    /\ wpc[w] = "wait_chunk"
    /\ pause_event
    /\ IF stop_event
       THEN Go(w, "returned") /\ wtask' = [wtask EXCEPT ![w] = None]
       ELSE Go(w, "store") /\ UNCHANGED wtask
    /\ UNCHANGED <<envVars, flagVars, task_queue, ledgerVars, total_tasks, total_bytes,
                   sinkVars, progress_open, ledger, enumVars, wattempt, wdata, wbatch,
                   cancel_pc, run_no, prev_run, pauses, histVars, last_mark, flushed, progress, appVars, callVars, auxVars>>

\* the write of a tile: INSERT OR REPLACE INTO tiles, or open(file_path, "wb")
\* variant: the write is dropped
sink_put_dropped(s, t, data) == s

sink_put(s, t, data) == [s EXCEPT ![t] = data]

\* after the chunk loop: stop check, empty-body check, write to the sink
WorkerStore(w) ==
    /\ wpc[w] = "store"
    /\ ~enable_sharding
    /\ LET t == wtask[w] IN
       IF stop_event
       THEN Go(w, "failed") /\ UNCHANGED <<wattempt, sink, sink_committed>>
       ELSE IF wdata[w] = 0
       THEN NextAttempt(w) /\ UNCHANGED <<sink, sink_committed>>
       ELSE IF is_mbtiles
       THEN IF mbtiles_open
            THEN /\ sink' = sink_put(sink, t, wdata[w])
                 /\ Go(w, "mark")
                 /\ UNCHANGED <<wattempt, sink_committed>>
            ELSE NextAttempt(w) /\ UNCHANGED <<sink, sink_committed>>
       ELSE /\ sink' = sink_put(sink, t, wdata[w])
            /\ sink_committed' = sink_put(sink_committed, t, wdata[w])
            /\ Go(w, "mark")
            /\ UNCHANGED wattempt
    /\ UNCHANGED <<envVars, flagVars, task_queue, ledgerVars, total_tasks, total_bytes,
                   mbtiles_open, transaction_counter, progress_open, ledger, enumVars,
                   wtask, wdata, wbatch, cancel_pc, run_no, prev_run, pauses, histVars, last_mark, flushed, progress, appVars, callVars, auxVars>>

\* total_bytes, _mark_tile_processed(success), batched MBTiles commit
WorkerMark(w) ==
    /\ wpc[w] = "mark"
    /\ ~enable_sharding
    /\ total_bytes' = total_bytes + wdata[w]
    /\ Mark(wtask[w], "success", "fetched")
    /\ IF is_mbtiles
       THEN /\ transaction_counter' = transaction_counter + 1
            /\ IF (transaction_counter + 1) % transaction_batch_size = 0
               THEN IF mbtiles_open
                    THEN sink_committed' = sink /\ Go(w, "tail")
                    ELSE UNCHANGED sink_committed /\ Go(w, "backoff")
               ELSE UNCHANGED sink_committed /\ Go(w, "tail")
       ELSE /\ UNCHANGED <<transaction_counter, sink_committed>>
            /\ Go(w, "tail")
    /\ UNCHANGED <<envVars, flagVars, task_queue, total_tasks, sink, mbtiles_open,
                   progress_open, ledger, enumVars, wtask, wattempt, wdata, wbatch,
                   cancel_pc, run_no, prev_run, pauses, gets, last_mark, flushed, progress, appVars, callVars, auxVars>>

(***************************************************************************)
(* Zoom-sharded MBTiles: one file per zoom level, its connection opened by *)
(* _get_mbtiles_connection on the first use and kept in the dict           *)
(* mbtiles_connections.  A connection is <<zoom, id>>, id counting the     *)
(* connections opened on the file of the zoom.  No lock is held between    *)
(* the test `zoom not in self.mbtiles_connections` and the assignment      *)
(* `self.mbtiles_connections[zoom] = conn`; mbtiles_lock is taken around   *)
(* the INSERT and around the commit only.  A connection that neither the   *)
(* dict nor the local mbtiles_conn of a thread refers to is closed by the  *)
(* interpreter, which rolls its uncommitted INSERTs back.  SQLite lets one *)
(* connection write a file at a time: while a connection holds uncommitted *)
(* rows, a write through another connection of the same file fails with    *)
(* "database is locked".                                                   *)
(***************************************************************************)
\* the connections something still refers to
Referenced(dict, wc) ==
    { <<z, dict[z]>> : z \in ZoomRange } \cup { wc[w] : w \in Workers }

\* the dict, the locals and the uncommitted rows after a step; the rows of a
\* connection that is no longer referenced are rolled back
ShardUpdate(dict, wc, rows, snk) ==
    LET kept == { r \in rows : r[2] \in Referenced(dict, wc) } IN
    /\ mbtiles_connections' = dict
    /\ wconn' = wc
    /\ conn_rows' = kept
    /\ sink' = [t \in Tiles |-> IF \E r \in rows \ kept : r[1] = t
                                THEN sink_committed[t] ELSE snk[t]]

\* another connection of the file of zoom z holds uncommitted rows
shard_locked(z, c) == \E r \in conn_rows : r[2][1] = z /\ r[2] # c

\* after the chunk loop: stop check, empty-body check, then
\* _get_mbtiles_connection(z) up to its test `zoom not in mbtiles_connections`
ShardLookup(w) ==
    /\ wpc[w] = "store"
    /\ enable_sharding
    /\ LET z == wtask[w][3] IN
       IF stop_event
       THEN Go(w, "failed") /\ UNCHANGED <<wattempt, sink, shardVars>>
       ELSE IF wdata[w] = 0
       THEN NextAttempt(w) /\ UNCHANGED <<sink, shardVars>>
       ELSE IF mbtiles_connections[z] = 0
       THEN Go(w, "connect") /\ UNCHANGED <<wattempt, sink, shardVars>>
       ELSE /\ ShardUpdate(mbtiles_connections,
                           [wconn EXCEPT ![w] = <<z, mbtiles_connections[z]>>], conn_rows, sink)
            /\ Go(w, "insert")
            /\ UNCHANGED <<wattempt, conn_opened>>
    /\ UNCHANGED <<envVars, flagVars, task_queue, ledgerVars, total_tasks, total_bytes,
                   sink_committed, mbtiles_open, transaction_counter, progress_open, ledger, enumVars,
                   wtask, wdata, wbatch, cancel_pc, run_no, prev_run, pauses, histVars, last_mark,
                   flushed, progress, appVars, callVars, provVars, raceVars>>

\* _get_mbtiles_connection after the test: sqlite3.connect, PRAGMAs, CREATE
\* TABLE, the INSERT of the metadata, commit, then
\* `self.mbtiles_connections[zoom] = conn` and `return conn`.  While another
\* connection holds uncommitted rows of the file the metadata INSERT fails,
\* the new connection is closed and the exception ends the attempt.
ShardConnect(w) ==
    /\ wpc[w] = "connect"
    /\ LET z == wtask[w][3]
           c == <<z, conn_opened[z] + 1>> IN
       /\ conn_opened' = [conn_opened EXCEPT ![z] = @ + 1]
       /\ IF shard_locked(z, c)
          THEN NextAttempt(w) /\ UNCHANGED <<sink, mbtiles_connections, wconn, conn_rows>>
          ELSE /\ ShardUpdate([mbtiles_connections EXCEPT ![z] = c[2]],
                              [wconn EXCEPT ![w] = c], conn_rows, sink)
               /\ Go(w, "insert")
               /\ UNCHANGED wattempt
    /\ UNCHANGED <<envVars, flagVars, task_queue, ledgerVars, total_tasks, total_bytes,
                   sink_committed, mbtiles_open, transaction_counter, progress_open, ledger, enumVars,
                   wtask, wdata, wbatch, cancel_pc, run_no, prev_run, pauses, histVars, last_mark,
                   flushed, progress, appVars, callVars, provVars, raceVars>>

\* `with self.mbtiles_lock: mbtiles_conn.execute(INSERT OR REPLACE ...)` on
\* the connection the local mbtiles_conn is bound to.  "database is locked"
\* reaches `except sqlite3.OperationalError` of _worker, where sqlite3 is not
\* a name: the NameError is caught by the handler of line 1274, `continue`.
ShardInsert(w) ==
    /\ wpc[w] = "insert"
    /\ LET t == wtask[w] IN
       IF shard_locked(t[3], wconn[w])
       THEN NextAttempt(w) /\ UNCHANGED <<sink, conn_rows>>
       ELSE /\ conn_rows' = conn_rows \cup {<<t, wconn[w]>>}
            /\ sink' = sink_put(sink, t, wdata[w])
            /\ Go(w, "mark")
            /\ UNCHANGED wattempt
    /\ UNCHANGED <<envVars, flagVars, task_queue, ledgerVars, total_tasks, total_bytes,
                   sink_committed, mbtiles_open, transaction_counter, progress_open, ledger, enumVars,
                   wtask, wdata, wbatch, cancel_pc, run_no, prev_run, pauses, histVars, last_mark,
                   flushed, progress, appVars, callVars, provVars, raceVars,
                   mbtiles_connections, conn_opened, wconn>>

\* total_bytes, _mark_tile_processed(success), transaction_counter += 1 and,
\* at a multiple of transaction_batch_size, the commit of
\* _get_mbtiles_connection(z): the connection of the zoom of this tile
ShardCount(w) ==
    /\ wpc[w] = "mark"
    /\ enable_sharding
    /\ total_bytes' = total_bytes + wdata[w]
    /\ Mark(wtask[w], "success", "fetched")
    /\ transaction_counter' = transaction_counter + 1
    /\ LET z == wtask[w][3]
           fresh == mbtiles_connections[z] = 0
           dict == IF fresh THEN [mbtiles_connections EXCEPT ![z] = conn_opened[z] + 1]
                            ELSE mbtiles_connections IN
       IF (transaction_counter + 1) % transaction_batch_size = 0
       THEN /\ conn_opened' = IF fresh THEN [conn_opened EXCEPT ![z] = @ + 1] ELSE conn_opened
            /\ sink_committed' = [t \in Tiles |->
                                    IF <<t, <<z, dict[z]>>>> \in conn_rows THEN sink[t]
                                    ELSE sink_committed[t]]
            /\ ShardUpdate(dict, [wconn EXCEPT ![w] = <<z, dict[z]>>],
                           { r \in conn_rows : r[2] # <<z, dict[z]>> }, sink)
       ELSE UNCHANGED <<conn_opened, sink_committed, sink, mbtiles_connections, wconn, conn_rows>>
    /\ Go(w, "tail")
    /\ UNCHANGED <<envVars, flagVars, task_queue, total_tasks, mbtiles_open,
                   progress_open, ledger, enumVars, wtask, wattempt, wdata, wbatch,
                   cancel_pc, run_no, prev_run, pauses, gets, last_mark, flushed, progress,
                   appVars, callVars, provVars, raceVars>>

\* the positions of _worker that write a zoom shard
WorkerShard(w) ==
    \/ ShardLookup(w)
    \/ ShardConnect(w)
    \/ ShardInsert(w)
    \/ ShardCount(w)

\* after an exception in the attempt: stop check, then the backoff loop
WorkerBackoff(w) ==
    /\ wpc[w] = "backoff"
    /\ IF stop_event
       THEN Go(w, "failed") /\ UNCHANGED <<task_queue, wattempt, wtask>>
       ELSE IF ~pause_event
       THEN /\ task_queue' = Append(task_queue, wtask[w])
            /\ wtask' = [wtask EXCEPT ![w] = None]
            /\ Go(w, "wait_backoff")
            /\ UNCHANGED wattempt
       ELSE NextAttempt(w) /\ UNCHANGED <<task_queue, wtask>>
    /\ UNCHANGED <<envVars, flagVars, ledgerVars, total_tasks, total_bytes,
                   sinkVars, progress_open, ledger, enumVars, wdata, wbatch,
                   cancel_pc, run_no, prev_run, pauses, histVars, last_mark, flushed, progress, appVars, callVars, auxVars>>

\* pause_event.wait() in the backoff loop returns: the thread returns
WorkerWaitBackoff(w) ==
    /\ wpc[w] = "wait_backoff"
    /\ pause_event
    /\ Go(w, "returned")
    /\ UNCHANGED <<envVars, flagVars, task_queue, ledgerVars, total_tasks, total_bytes,
                   sinkVars, progress_open, ledger, enumVars, wtask, wattempt, wdata, wbatch,
                   cancel_pc, run_no, prev_run, pauses, histVars, last_mark, flushed, progress, appVars, callVars, auxVars>>

\* `if not ok`: _mark_tile_processed(failed)
WorkerFailed(w) ==
    /\ wpc[w] = "failed"
    /\ Mark(wtask[w], "failed", IF stop_event THEN "stop" ELSE "failed")
    /\ Go(w, "tail")
    /\ UNCHANGED <<envVars, flagVars, task_queue, total_tasks, total_bytes,
                   sinkVars, progress_open, ledger, enumVars, wtask, wattempt, wdata, wbatch,
                   cancel_pc, run_no, prev_run, pauses, gets, last_mark, flushed, progress, appVars, callVars, auxVars>>

\* end of the iteration: _update_progress in the else clause of the per-task
\* try (an exception of the callback is outside every handler of the
\* iteration and leaves the loop), task_done, processed_in_batch, periodic
\* _save_progress
WorkerTail(w) ==
    /\ wpc[w] = "tail"
    /\ IF callback_raises
       THEN /\ Go(w, "raised")
            /\ UNCHANGED <<progress, wtask, wbatch, ledger, flushed>>
       ELSE /\ progress' = update_progress(progress, wtask[w], CurrentLedger, total_tasks, total_bytes)
            /\ wtask' = [wtask EXCEPT ![w] = None]
            /\ IF wbatch[w] + 1 >= save_interval
               THEN /\ ledger' = save_progress(ledger, processed_tiles, progress_open)
                    /\ flushed' = handed(flushed, processed_tiles, progress_open)
                    /\ wbatch' = [wbatch EXCEPT ![w] = 0]
               ELSE /\ wbatch' = [wbatch EXCEPT ![w] = @ + 1]
                    /\ UNCHANGED <<ledger, flushed>>
            /\ Go(w, "loop")
    /\ UNCHANGED <<envVars, flagVars, task_queue, ledgerVars, total_tasks, total_bytes,
                   sinkVars, progress_open, enumVars, wattempt, wdata,
                   cancel_pc, run_no, prev_run, pauses, histVars, last_mark, appVars, callVars, auxVars>>

\* the loop was left: _save_progress before the thread ends
WorkerExit(w) ==
    /\ wpc[w] = "exit"
    /\ ledger' = save_progress(ledger, processed_tiles, progress_open)
    /\ flushed' = handed(flushed, processed_tiles, progress_open)
    /\ wtask' = [wtask EXCEPT ![w] = None]
    /\ Go(w, "ended")
    /\ UNCHANGED <<envVars, flagVars, task_queue, ledgerVars, total_tasks, total_bytes,
                   sinkVars, progress_open, enumVars, wattempt, wdata, wbatch,
                   cancel_pc, run_no, prev_run, pauses, histVars, last_mark, progress, appVars, callVars, auxVars>>

\* the outer `except Exception` of _worker: the exception that left the loop
\* is logged, then the thread saves the progress and ends; the task it held
\* is never marked done
WorkerRaised(w) ==
    /\ wpc[w] = "raised"
    /\ ledger' = save_progress(ledger, processed_tiles, progress_open)
    /\ flushed' = handed(flushed, processed_tiles, progress_open)
    /\ wtask' = [wtask EXCEPT ![w] = None]
    /\ Go(w, "crashed")
    /\ UNCHANGED <<envVars, flagVars, task_queue, ledgerVars, total_tasks, total_bytes,
                   sinkVars, progress_open, enumVars, wattempt, wdata, wbatch,
                   cancel_pc, run_no, prev_run, pauses, histVars, last_mark, progress, appVars, callVars, auxVars>>

(***************************************************************************)
(* A later run on the same output: the process ends (after cancel() has    *)
(* returned, or after the run has processed everything) and a new          *)
(* TileDownloader is constructed with identical parameters.  What is       *)
(* durable survives: the ledger rows and the committed part of the sink.   *)
(***************************************************************************)
RunComplete ==
    /\ enum_pc = "done"
    /\ task_queue = <<>>
    /\ \A w \in Workers : wtask[w] = None /\ wpc[w] # "idle"

Restart ==
    /\ run_no < MaxRuns
    /\ cancel_pc = "done" \/ (cancel_pc = "none" /\ RunComplete)
    /\ run_no' = run_no + 1
    /\ prev_run' = IF cancel_pc = "done" THEN "cancelled" ELSE "completed"
    /\ sink' = sink_committed
    /\ stop_event' = FALSE
    /\ pause_event' = TRUE
    /\ task_queue' = <<>>
    /\ processed_tiles' = {}
    /\ downloaded_count' = 0 /\ failed_count' = 0 /\ skipped_count' = 0
    /\ total_tasks' = 0 /\ total_bytes' = 0
    /\ transaction_counter' = 0
    /\ mbtiles_open' = (is_mbtiles /\ ~enable_sharding)
    /\ progress_open' = TRUE
    /\ enum_pc' = "idle" /\ enum_zoom' = min_zoom /\ enum_idx' = 1 /\ total_tiles' = 0
    /\ wpc' = [w \in Workers |-> "idle"]
    /\ wtask' = [w \in Workers |-> None]
    /\ wattempt' = [w \in Workers |-> 0]
    /\ wdata' = [w \in Workers |-> 0]
    /\ wbatch' = [w \in Workers |-> 0]
    /\ cancel_pc' = "none"
    /\ gets' = Zero /\ counted' = Zero /\ mark_log' = {}
    /\ flushed' = {} /\ progress' = None
    /\ cancel_stats' = None /\ batch_stats' = None
    /\ monitor_pc' = "poll" /\ finals' = <<>>
    /\ UNCHANGED <<envVars, other_tiles, sink_committed, ledger, pauses, last_mark, callVars, auxVars>>

\* the positions of _worker that do not depend on pause_event being cleared
WorkerRun(w) ==
    \/ WorkerLoop(w)
    \/ WorkerGet(w)
    \/ WorkerGot(w)
    \/ WorkerAttempt(w)
    \/ WorkerChunk(w)
    \/ WorkerStore(w)
    \/ WorkerMark(w)
    \/ WorkerFailed(w)
    \/ WorkerTail(w)

\* after an exception of the GET
WorkerRetry(w) ==
    \/ WorkerBackoff(w)

\* the waits on pause_event
WorkerParked(w) ==
    \/ WorkerWaitTop(w)
    \/ WorkerWaitGot(w)
    \/ WorkerWaitAttempt(w)
    \/ WorkerWaitChunk(w)

Enumerate ==
    \/ EnumLoad
    \/ EnumZoom
    \/ EnumTile

Next ==
    \/ Start
    \/ Enumerate
    \/ \E w \in Workers : WorkerRun(w)
    \/ \E w \in Workers : WorkerRetry(w)
    \/ \E w \in Workers : WorkerParked(w)
    \/ \E w \in Workers : WorkerWaitBackoff(w)
    \/ \E w \in Workers : WorkerExit(w)
    \/ \E w \in Workers : WorkerRaised(w)
    \/ \E w \in Workers : WorkerShard(w)
    \/ Pause
    \/ Resume
    \/ CancelSignal
    \/ CancelClose
    \/ Restart

\* the engine with every operation
Spec == Init /\ [][Next]_vars

(***************************************************************************)
(* Scenarios: the same engine under a fixed endpoint behaviour and a       *)
(* subset of the operator's commands.                                      *)
(***************************************************************************)
\* an undisturbed run (no pause, no cancel) against an endpoint that always
\* answers 200 or always answers 404; threads are scheduled fairly
InitRun == Init /\ server \in {"ok", "notfound"} /\ Defaults

NextRun ==
    \/ Start
    \/ Enumerate
    \/ \E w \in Workers : WorkerRun(w)

FairRun ==
    /\ WF_vars(Start)
    /\ WF_vars(Enumerate)
    /\ \A w \in Workers : WF_vars(WorkerRun(w))

SpecRun == InitRun /\ [][NextRun]_vars /\ FairRun

\* a run with pause() and resume() and no cancel, against an endpoint that
\* always answers 200 or always answers 404
InitPause == Init /\ server \in {"ok", "notfound"} /\ Defaults

NextPause ==
    \/ Start
    \/ Enumerate
    \/ \E w \in Workers : WorkerRun(w)
    \/ \E w \in Workers : WorkerParked(w)
    \/ Pause
    \/ Resume

SpecPause == InitPause /\ [][NextPause]_vars

\* a run against an always-200 endpoint that is cancelled or runs to its end,
\* followed by a second run with identical parameters
InitResume == Init /\ server = "ok" /\ Defaults

NextResume ==
    \/ Start
    \/ Enumerate
    \/ \E w \in Workers : WorkerRun(w)
    \/ \E w \in Workers : WorkerExit(w)
    \/ CancelSignal
    \/ CancelClose
    \/ Restart

SpecResume == InitResume /\ [][NextResume]_vars

(***************************************************************************)
(* _mark_tile_processed on its own: Init draws the in-memory ledger state  *)
(* (the keys of Tiles in the set, the number of other keys in it, the      *)
(* counters, the rows of the progress db), MarkCall applies one call.      *)
(***************************************************************************)
InitMark ==
    /\ save_format = "directory"
    /\ server = "ok"
    /\ Defaults
    /\ sink = Zero /\ sink_committed = Zero
    /\ ledger \in {{}, Tiles}
    /\ run_no = 1 /\ prev_run = "none" /\ pauses = 0
    /\ stop_event = FALSE
    /\ pause_event = TRUE
    /\ task_queue = <<>>
    /\ processed_tiles \in SUBSET Tiles
    /\ other_tiles \in {0, max_tiles_in_memory - 1, max_tiles_in_memory}
    /\ downloaded_count \in 0..MaxCount
    /\ failed_count \in 0..MaxCount
    /\ skipped_count \in 0..MaxCount
    /\ total_tasks = 0 /\ total_bytes = 0
    /\ transaction_counter = 0
    /\ mbtiles_open = FALSE
    /\ progress_open = TRUE
    /\ enum_pc = "idle" /\ enum_zoom = min_zoom /\ enum_idx = 1 /\ total_tiles = 0
    /\ wpc = [w \in Workers |-> "idle"]
    /\ wtask = [w \in Workers |-> None]
    /\ wattempt = [w \in Workers |-> 0]
    /\ wdata = [w \in Workers |-> 0]
    /\ wbatch = [w \in Workers |-> 0]
    /\ cancel_pc = "none"
    /\ gets = Zero /\ counted = Zero /\ mark_log = {}
    /\ last_mark = None
    /\ flushed = {} /\ progress = None
    /\ cancel_stats = None /\ batch_stats = None
    /\ monitor_pc = "poll" /\ finals = <<>>
    /\ last_put = None /\ last_load = None
    /\ AuxInit

MarkCall(t, status) ==
    LET L2 == mark_tile_processed(CurrentLedger, t, status) IN
    /\ Counted(CurrentLedger) < MaxCount + 2
    /\ processed_tiles' = L2.processed_tiles
    /\ downloaded_count' = L2.downloaded_count
    /\ failed_count' = L2.failed_count
    /\ skipped_count' = L2.skipped_count
    /\ last_mark' = [tile |-> t, status |-> status, before |-> CurrentLedger, rows |-> ledger]
    /\ UNCHANGED <<envVars, flagVars, task_queue, other_tiles, total_tasks, total_bytes,
                   sinkVars, progress_open, ledger, enumVars, workerVars,
                   cancel_pc, run_no, prev_run, pauses, histVars,
                   flushed, progress, appVars, callVars, auxVars>>

NextMark == \E t \in Tiles, status \in Statuses : MarkCall(t, status)

SpecMark == InitMark /\ [][NextMark]_vars

\* a run with pause() and resume() and no cancel against an endpoint whose
\* every GET raises (connection refused, timeout): the attempts end in the
\* exception handlers and the backoff loop
InitBackoff == Init /\ server = "down" /\ Defaults

WorkerDown(w) ==
    \/ WorkerLoop(w)
    \/ WorkerGet(w)
    \/ WorkerGot(w)
    \/ WorkerAttempt(w)
    \/ WorkerBackoff(w)
    \/ WorkerFailed(w)
    \/ WorkerTail(w)
    \/ WorkerWaitTop(w)
    \/ WorkerWaitGot(w)
    \/ WorkerWaitAttempt(w)
    \/ WorkerWaitBackoff(w)

NextBackoff ==
    \/ Start
    \/ Enumerate
    \/ \E w \in Workers : WorkerDown(w)
    \/ Pause
    \/ Resume

SpecBackoff == InitBackoff /\ [][NextBackoff]_vars

\* an undisturbed run (no pause, no cancel) against the endpoint that is down
WorkerUndisturbedDown(w) ==
    \/ WorkerLoop(w)
    \/ WorkerGet(w)
    \/ WorkerGot(w)
    \/ WorkerAttempt(w)
    \/ WorkerBackoff(w)
    \/ WorkerFailed(w)
    \/ WorkerTail(w)

NextDown ==
    \/ Start
    \/ Enumerate
    \/ \E w \in Workers : WorkerUndisturbedDown(w)

SpecDown == InitBackoff /\ [][NextDown]_vars

(***************************************************************************)
(* An output whose progress db was written by progress_generator.py from   *)
(* the tiles already in the sink, then an undisturbed run on it.           *)
(***************************************************************************)
InitGenerated ==
    /\ save_format \in {"directory", "mbtiles"}
    /\ server \in {"ok", "notfound"}
    /\ Defaults
    /\ sink \in [Tiles -> {0, NumChunks}]
    /\ sink_committed = sink
    /\ ledger = { t \in Tiles : sink[t] > 0 }
    /\ run_no = 1 /\ prev_run = "none" /\ pauses = 0
    /\ Constructed

SpecGenerated == InitGenerated /\ [][NextRun]_vars

(***************************************************************************)
(* BatchDownloader.download_bbox: add_tasks_for_bbox to its end, start(),  *)
(* then get_statistics() at once.                                          *)
(***************************************************************************)
\* TileDownloader(provider_name, output_dir, ...): save_format keeps its default
InitBatch == InitRun /\ save_format = "directory"

DownloadBboxStart == enum_pc = "done" /\ Start

DownloadBboxReturn ==
    /\ batch_stats = None
    /\ \A w \in Workers : wpc[w] # "idle"
    /\ batch_stats' = get_statistics(CurrentLedger, total_tasks)
    /\ UNCHANGED <<engineVars, cancel_stats, monitor_pc, finals, callVars, auxVars>>

NextBatch ==
    \/ Enumerate
    \/ DownloadBboxStart
    \/ DownloadBboxReturn
    \/ \E w \in Workers : WorkerRun(w)

SpecBatch == InitBatch /\ [][NextBatch]_vars

(***************************************************************************)
(* app.py: POST /api/download starts start(), add_tasks_for_bbox() and     *)
(* monitor_download() in three threads; POST /api/cancel-download calls    *)
(* cancel() under current_downloader_lock and then clears                  *)
(* current_downloader.                                                     *)
(***************************************************************************)
\* current_downloader is None once the cancel endpoint has run
current_downloader == cancel_pc # "done"

\* one round of the monitor loop: sleep, lock, the completion test
MonitorPoll ==
    /\ monitor_pc = "poll"
    /\ cancel_pc # "sleep"
    /\ IF ~current_downloader
       THEN monitor_pc' = "done"
       ELSE /\ enum_pc = "done" /\ task_queue = <<>> /\ total_tasks > 0
            /\ monitor_pc' = "wait"
    /\ UNCHANGED <<engineVars, cancel_stats, batch_stats, finals, callVars, auxVars>>

\* after the second sleep: the queue is tested again and send_final_update
\* sends the update with completed=True
MonitorSend ==
    /\ monitor_pc = "wait"
    /\ cancel_pc # "sleep"
    /\ IF ~current_downloader
       THEN monitor_pc' = "done" /\ UNCHANGED finals
       ELSE IF task_queue = <<>>
       THEN /\ finals' = Append(finals, [downloaded |-> downloaded_count,
                                          failed |-> failed_count,
                                          skipped |-> skipped_count,
                                          total |-> total_tasks])
            /\ monitor_pc' = "done"
       ELSE monitor_pc' = "poll" /\ UNCHANGED finals
    /\ UNCHANGED <<engineVars, cancel_stats, batch_stats, callVars, auxVars>>

NextApp ==
    \/ Start
    \/ Enumerate
    \/ \E w \in Workers : WorkerRun(w)
    \/ \E w \in Workers : WorkerExit(w)
    \/ CancelSignal
    \/ CancelClose
    \/ MonitorPoll
    \/ MonitorSend

SpecApp == InitRun /\ [][NextApp]_vars

(***************************************************************************)
(* The row of an MBTiles put on its own: the task's y comes from           *)
(* TileMath.latlon_to_tile with the run's is_tms, the worker computes      *)
(* tile_row from it.                                                       *)
(***************************************************************************)
Pow2(n) == 2 ^ n

\* TileMath.latlon_to_tile, its last step: the y of the Slippy row y_tile
latlon_to_tile(y_tile, zoom, is_tms) ==
    IF is_tms THEN (Pow2(zoom) - 1) - y_tile ELSE y_tile

\* _worker: mbtiles_row = (2 ** z) - 1 - y
mbtiles_row(y, z) == Pow2(z) - 1 - y

InitPut == Init /\ save_format = "mbtiles" /\ server = "ok" /\ Defaults

PutRow(is_tms, x, y_tile, z) ==
    LET y == latlon_to_tile(y_tile, z, is_tms) IN
    /\ last_put' = [is_tms |-> is_tms, x |-> x, y_tile |-> y_tile, z |-> z,
                    y |-> y, tile_row |-> mbtiles_row(y, z)]
    /\ UNCHANGED <<engineVars, appVars, last_load, auxVars>>

NextPut ==
    \E is_tms \in BOOLEAN, z \in 0..MaxZoom :
        \E x \in 0..(Pow2(z) - 1), y_tile \in 0..(Pow2(z) - 1) : PutRow(is_tms, x, y_tile, z)

SpecPut == InitPut /\ [][NextPut]_vars

(***************************************************************************)
(* _load_processed_tiles_for_zoom_range on its own: Init draws the rows of *)
(* the progress db, LoadCall applies one call.                             *)
(***************************************************************************)
LedgerKeys == Tiles \cup { <<0, 0, max_zoom + 1>>, <<1, 1, max_zoom + 1>> }

ZoomLevels == min_zoom..(max_zoom + 1)

InitLoad ==
    /\ save_format = "directory"
    /\ server = "ok"
    /\ Defaults
    /\ sink = Zero /\ sink_committed = Zero
    /\ ledger \in SUBSET LedgerKeys
    /\ run_no = 1 /\ prev_run = "none" /\ pauses = 0
    /\ Constructed

LoadCall(scan, zmin, zmax) ==
    /\ last_load' = [rows |-> ledger, zmin |-> zmin, zmax |-> zmax,
                     result |-> load_processed_tiles_for_zoom_range(scan, zmin, zmax, progress_open)]
    /\ UNCHANGED <<engineVars, appVars, last_put, auxVars>>

NextLoad ==
    \E scan \in Scans(ledger), zmin \in ZoomLevels, zmax \in ZoomLevels :
        zmin <= zmax /\ LoadCall(scan, zmin, zmax)

SpecLoad == InitLoad /\ [][NextLoad]_vars

\* an undisturbed run with the Bing provider, whose min_zoom is 1, on the zoom
\* range of the request, which starts at 0
InitZoom ==
    /\ Init
    /\ server \in {"ok", "notfound"}
    /\ provider_name = "bing"
    /\ progress_callback = "returns"

SpecZoom == InitZoom /\ [][NextRun]_vars

\* an undisturbed run against an always-200 endpoint that writes zoom-sharded
\* MBTiles (the output path contains "{z}")
InitShard ==
    /\ save_format = "sharded"
    /\ server = "ok"
    /\ Defaults
    /\ sink = Zero /\ sink_committed = Zero
    /\ ledger = {}
    /\ run_no = 1 /\ prev_run = "none" /\ pauses = 0
    /\ Constructed

WorkerShardRun(w) ==
    \/ WorkerLoop(w)
    \/ WorkerGet(w)
    \/ WorkerGot(w)
    \/ WorkerAttempt(w)
    \/ WorkerChunk(w)
    \/ WorkerShard(w)
    \/ WorkerFailed(w)
    \/ WorkerTail(w)

NextShard ==
    \/ Start
    \/ Enumerate
    \/ \E w \in Workers : WorkerShardRun(w)

SpecShard == InitShard /\ [][NextShard]_vars

\* an undisturbed run whose progress callback returns or raises, with either
\* provider
InitCallback == Init /\ server \in {"ok", "notfound"}

NextCallback ==
    \/ NextRun
    \/ \E w \in Workers : WorkerRaised(w)

SpecCallback == InitCallback /\ [][NextCallback]_vars

(***************************************************************************)
(* The counter updates of concurrent workers.  Every worker holds a tile   *)
(* of its own and has reached the point where it records the outcome: a    *)
(* stored tile goes through `self.total_bytes += total_bytes` (line 1297)  *)
(* and _mark_tile_processed(x, y, z, 'success'), a failed or skipped tile  *)
(* through _mark_tile_processed alone.  No lock is held at either place    *)
(* (mbtiles_lock covers the INSERT and the commit only), and `a += b` on   *)
(* an attribute is a read of the attribute, an addition and a write of the *)
(* attribute: the thread can be switched between the read and the write.   *)
(***************************************************************************)
InitCounters ==
    /\ save_format = "directory"
    /\ server = "ok"
    /\ Defaults
    /\ sink = Zero /\ sink_committed = Zero
    /\ ledger = {}
    /\ run_no = 1 /\ prev_run = "none" /\ pauses = 0
    /\ stop_event = FALSE
    /\ pause_event = TRUE
    /\ task_queue = <<>>
    /\ processed_tiles = {}
    /\ other_tiles = 0
    /\ downloaded_count = 0 /\ failed_count = 0 /\ skipped_count = 0
    /\ total_tasks = Cardinality(Tiles) /\ total_bytes = 0
    /\ transaction_counter = 0
    /\ mbtiles_open = FALSE
    /\ progress_open = TRUE
    /\ enum_pc = "done" /\ enum_zoom = max_zoom /\ enum_idx = 1 /\ total_tiles = Cardinality(Tiles)
    /\ wtask \in { f \in [Workers -> Tiles] : \A v, w \in Workers : f[v] = f[w] => v = w }
    /\ wstatus \in [Workers -> Statuses]
    /\ wpc = [w \in Workers |-> IF wstatus[w] = "success" THEN "bytes_load" ELSE "count_load"]
    /\ wattempt = [w \in Workers |-> 0]
    /\ wdata = [w \in Workers |-> IF wstatus[w] = "success" THEN NumChunks ELSE 0]
    /\ wbatch = [w \in Workers |-> 0]
    /\ cancel_pc = "none"
    /\ gets = Zero /\ counted = Zero /\ mark_log = {}
    /\ last_mark = None
    /\ flushed = {} /\ progress = None
    /\ cancel_stats = None /\ batch_stats = None
    /\ monitor_pc = "poll" /\ finals = <<>>
    /\ last_put = None /\ last_load = None
    /\ wreg = [w \in Workers |-> 0]
    /\ mbtiles_connections = [z \in ZoomRange |-> 0]
    /\ conn_opened = [z \in ZoomRange |-> 0]
    /\ wconn = [w \in Workers |-> None]
    /\ conn_rows = {}
    /\ provider_extension = "jpg"
    /\ provider_is_tms = FALSE
    /\ downloader_is_tms = FALSE
    /\ last_call = None

\* what a step of the counter updates leaves alone
CountersFrame ==
    UNCHANGED <<envVars, flagVars, task_queue, other_tiles, total_tasks,
                sinkVars, progress_open, ledger, enumVars, wtask, wattempt, wdata, wbatch,
                cancel_pc, run_no, prev_run, pauses, gets, counted, last_mark,
                flushed, progress, appVars, callVars, provVars, wstatus, shardVars>>

\* self.total_bytes += total_bytes: the read of self.total_bytes
AddBytesLoad(w) ==
    /\ wpc[w] = "bytes_load"
    /\ wreg' = [wreg EXCEPT ![w] = total_bytes]
    /\ wpc' = [wpc EXCEPT ![w] = "bytes_store"]
    /\ UNCHANGED <<ledgerVars, total_bytes, mark_log>>
    /\ CountersFrame

\* self.total_bytes += total_bytes: the write of the sum
AddBytesStore(w) ==
    /\ wpc[w] = "bytes_store"
    /\ total_bytes' = wreg[w] + wdata[w]
    /\ wpc' = [wpc EXCEPT ![w] = "count_load"]
    /\ UNCHANGED <<ledgerVars, wreg, mark_log>>
    /\ CountersFrame

\* the counter that _mark_tile_processed increments for a status
counter_of(status) ==
    IF status = "success" THEN downloaded_count
    ELSE IF status = "failed" THEN failed_count ELSE skipped_count

\* _mark_tile_processed up to the read of the counter: the key is new, it is
\* added to processed_tiles, and the counter of the status is read
MarkLoad(w) ==
    /\ wpc[w] = "count_load"
    /\ wtask[w] \notin processed_tiles
    /\ Cardinality(processed_tiles) + other_tiles < max_tiles_in_memory
    /\ processed_tiles' = processed_tiles \cup {wtask[w]}
    /\ wreg' = [wreg EXCEPT ![w] = counter_of(wstatus[w])]
    /\ mark_log' = mark_log \cup {<<wtask[w], wstatus[w], "concurrent">>}
    /\ wpc' = [wpc EXCEPT ![w] = "count_store"]
    /\ UNCHANGED <<other_tiles, downloaded_count, failed_count, skipped_count, total_bytes>>
    /\ CountersFrame

\* _mark_tile_processed: the write of counter + 1
MarkStore(w) ==
    /\ wpc[w] = "count_store"
    /\ downloaded_count' = IF wstatus[w] = "success" THEN wreg[w] + 1 ELSE downloaded_count
    /\ failed_count' = IF wstatus[w] = "failed" THEN wreg[w] + 1 ELSE failed_count
    /\ skipped_count' = IF wstatus[w] = "skipped" THEN wreg[w] + 1 ELSE skipped_count
    /\ wpc' = [wpc EXCEPT ![w] = "marked"]
    /\ UNCHANGED <<processed_tiles, other_tiles, total_bytes, wreg, mark_log>>
    /\ CountersFrame

NextCounters ==
    \E w \in Workers :
        \/ AddBytesLoad(w)
        \/ AddBytesStore(w)
        \/ MarkLoad(w)
        \/ MarkStore(w)

SpecCounters == InitCounters /\ [][NextCounters]_vars

\* app.py, api_download while current_downloader is set (it stays set after a
\* run has completed; only the cancel endpoint clears it): _save_progress of
\* the old downloader, its queue emptied with get_nowait, stop_event and
\* pause_event set, sleep(0.1), then current_downloader = TileDownloader(...).
\* cancel() is not called: the MBTiles connection of the old downloader is
\* neither committed nor closed, and its worker threads are not joined.  The
\* model goes on with the new downloader; the INSERTs the old connection had
\* not committed are rolled back when the old downloader is dropped.
Supersede ==
    /\ run_no < MaxRuns
    /\ current_downloader
    /\ cancel_pc = "none"
    /\ run_no' = run_no + 1
    /\ prev_run' = "superseded"
    /\ ledger' = save_progress(ledger, processed_tiles, progress_open)
    /\ sink' = sink_committed
    /\ stop_event' = FALSE
    /\ pause_event' = TRUE
    /\ task_queue' = <<>>
    /\ processed_tiles' = {}
    /\ downloaded_count' = 0 /\ failed_count' = 0 /\ skipped_count' = 0
    /\ total_tasks' = 0 /\ total_bytes' = 0
    /\ transaction_counter' = 0
    /\ mbtiles_open' = (is_mbtiles /\ ~enable_sharding)
    /\ progress_open' = TRUE
    /\ enum_pc' = "idle" /\ enum_zoom' = min_zoom /\ enum_idx' = 1 /\ total_tiles' = 0
    /\ wpc' = [w \in Workers |-> "idle"]
    /\ wtask' = [w \in Workers |-> None]
    /\ wattempt' = [w \in Workers |-> 0]
    /\ wdata' = [w \in Workers |-> 0]
    /\ wbatch' = [w \in Workers |-> 0]
    /\ gets' = Zero /\ counted' = Zero /\ mark_log' = {}
    /\ flushed' = {} /\ progress' = None
    /\ cancel_stats' = None /\ batch_stats' = None
    /\ monitor_pc' = "poll" /\ finals' = <<>>
    /\ UNCHANGED <<envVars, other_tiles, sink_committed, cancel_pc, pauses, last_mark, callVars, auxVars>>

\* POST /download arriving at any moment of an undisturbed run
NextSupersede ==
    \/ NextRun
    \/ Supersede

SpecSupersede == InitRun /\ [][NextSupersede]_vars

\* number of entries of the queue that are tile t
InQueue(t) == Cardinality({ i \in 1..Len(task_queue) : task_queue[i] = t })

\* add_task(x, y, zoom): a processed tile is counted as skipped, any other is
\* put on the queue.  The caller adds single tiles before it calls
\* add_tasks_for_bbox, and adds a tile again only when it is no longer
\* pending.
AddTask(t) ==
    /\ enum_pc = "idle"
    /\ InQueue(t) = 0 /\ \A w \in Workers : wtask[w] # t
    /\ counted[t] < 2
    /\ IF t \in processed_tiles
       THEN /\ skipped_count' = skipped_count + 1
            /\ counted' = [counted EXCEPT ![t] = @ + 1]
            /\ UNCHANGED task_queue
       ELSE /\ task_queue' = Append(task_queue, t)
            /\ UNCHANGED <<skipped_count, counted>>
    /\ UNCHANGED <<envVars, flagVars, processed_tiles, other_tiles, downloaded_count,
                   failed_count, total_tasks, total_bytes, sinkVars, progress_open, ledger,
                   enumVars, workerVars, cancel_pc, run_no, prev_run, pauses,
                   gets, mark_log, last_mark, flushed, progress, appVars, callVars, auxVars>>

\* a run in which single tiles are added with add_task while the workers
\* run, before add_tasks_for_bbox is called for the request
InitAddTask == Init /\ server \in {"ok", "notfound"} /\ Defaults

\* the single tiles the caller adds: those of the first zoom level
NextAddTask ==
    \/ NextRun
    \/ \E t \in { u \in Tiles : u[3] = min_zoom } : AddTask(t)

SpecAddTask == InitAddTask /\ [][NextAddTask]_vars

(***************************************************************************)
(* The provider object of the registry: ProviderManager keeps one instance *)
(* per name and get_provider hands that instance to every TileDownloader.  *)
(* TileDownloader.__init__ writes is_tms and the tile format into it; the  *)
(* worker asks it for the path of each tile.                               *)
(***************************************************************************)
Formats == {"jpg", "jpeg", "JPG", "JPEG", "Jpeg", "png", "PNG"}

\* no tile_format argument, no suffix in the URL: the falsy values of `if tile_format:`
NoFormat == ""

\* str.lower() on the spellings of Formats
lower(s) ==
    CASE s \in {"jpg", "JPG"} -> "jpg"
      [] s \in {"jpeg", "JPEG", "Jpeg"} -> "jpeg"
      [] s \in {"png", "PNG"} -> "png"

\* TileProvider._extract_extension: tile_format when given, else the suffix
\* the regex finds in url_template (url_ext, empty when it finds none), else
\* 'jpg'; lowercased, and 'jpeg' becomes 'jpg'
extract_extension(tile_format, url_ext) ==
    IF tile_format # NoFormat
    THEN LET ext == lower(tile_format) IN IF ext = "jpeg" THEN "jpg" ELSE ext
    ELSE IF url_ext # NoFormat
         THEN LET ext == lower(url_ext) IN IF ext = "jpeg" THEN "jpg" ELSE ext
         ELSE "jpg"

\* TileProvider.set_tile_format: self.extension = tile_format.lower()
set_tile_format(tile_format) == lower(tile_format)

\* get_tile_path of the provider: <<zoom, x, y, extension>> of the path;
\* CustomTileProvider flips y when its is_tms is set, Bing and OSM never do
get_tile_path(name, p_is_tms, ext, x, y, zoom) ==
    IF name = "custom" /\ p_is_tms
    THEN <<zoom, x, (Pow2(zoom) - 1) - y, ext>>
    ELSE <<zoom, x, y, ext>>

InitProvider ==
    Init /\ save_format = "directory" /\ server = "ok" /\ progress_callback = "returns"

\* TileProvider.__init__ followed by ProviderManager.register_provider: a
\* new instance replaces the one registered under the name
RegisterProvider(tile_format, url_ext) ==
    /\ provider_name = "custom"
    /\ provider_extension' = extract_extension(tile_format, url_ext)
    /\ provider_is_tms' = FALSE
    /\ last_call' = [op |-> "register",
                     input |-> IF tile_format # NoFormat THEN tile_format ELSE url_ext]
    /\ UNCHANGED downloader_is_tms
    /\ UNCHANGED <<engineVars, appVars, callVars, raceVars, shardVars>>

\* TileDownloader.__init__, its provider part: the registered instance gets
\* the is_tms and the tile_format of this downloader.  own: the downloader
\* constructed is the one whose tiles StorePath stores; otherwise it is
\* another downloader of the same provider name
NewDownloader(own, is_tms, tile_format) ==
    /\ provider_is_tms' = is_tms
    /\ downloader_is_tms' = IF own THEN is_tms ELSE downloader_is_tms
    /\ provider_extension' =
           IF tile_format # NoFormat THEN set_tile_format(tile_format) ELSE provider_extension
    /\ last_call' = [op |-> "init", input |-> tile_format]
    /\ UNCHANGED <<engineVars, appVars, callVars, raceVars, shardVars>>

\* one tile of the filesystem sink: add_tasks_for_bbox enumerates it with
\* the downloader's is_tms, _worker stores it at provider.get_tile_path
StorePath(x, y_tile, z) ==
    LET y == latlon_to_tile(y_tile, z, downloader_is_tms) IN
    /\ last_call' = [op |-> "path", input |-> NoFormat,
                     is_tms |-> downloader_is_tms, x |-> x, y_tile |-> y_tile, z |-> z,
                     path |-> get_tile_path(provider_name, provider_is_tms,
                                            provider_extension, x, y, z)]
    /\ UNCHANGED <<provider_extension, provider_is_tms, downloader_is_tms>>
    /\ UNCHANGED <<engineVars, appVars, callVars, raceVars, shardVars>>

NextProvider ==
    \/ \E tile_format \in Formats \cup {NoFormat}, url_ext \in Formats \cup {NoFormat} :
           RegisterProvider(tile_format, url_ext)
    \/ \E own \in BOOLEAN, is_tms \in BOOLEAN, tile_format \in Formats \cup {NoFormat} :
           NewDownloader(own, is_tms, tile_format)
    \/ \E z \in 0..MaxZoom :
           \E x \in 0..(Pow2(z) - 1), y_tile \in 0..(Pow2(z) - 1) : StorePath(x, y_tile, z)

SpecProvider == InitProvider /\ [][NextProvider]_vars

(***************************************************************************)
(* BingTileProvider.tile_to_quadkey on its own: the quadkey is the         *)
(* sequence of its characters.  QuadkeyCall applies it to two tiles of one *)
(* zoom, once per behaviour.                                               *)
(***************************************************************************)
\* the loop of tile_to_quadkey from i down to 1: mask = 1 << (i - 1); digit
\* 0, plus x_digit when x & mask, plus y_digit when y & mask; str(digit) is
\* appended
RECURSIVE quadkey_loop(_, _, _, _, _)
quadkey_loop(x, y, i, x_digit, y_digit) ==
    IF i = 0
    THEN <<>>
    ELSE LET mask  == Pow2(i - 1)
             digit == (IF (x \div mask) % 2 = 1 THEN x_digit ELSE 0)
                      + (IF (y \div mask) % 2 = 1 THEN y_digit ELSE 0)
         IN  << <<"0", "1", "2", "3">>[digit + 1] >> \o quadkey_loop(x, y, i - 1, x_digit, y_digit)

tile_to_quadkey_swapped(x, y, zoom) == quadkey_loop(x, y, zoom, 2, 1)

\* tile_to_quadkey: digit += 1 for the bit of x, digit += 2 for the bit of y
tile_to_quadkey(x, y, zoom) == quadkey_loop(x, y, zoom, 1, 2)

\* the calls of the static functions need no run: a constructed downloader
InitCall == Init /\ save_format = "directory" /\ server = "ok" /\ Defaults

QuadkeyCall(a, b, zoom) ==
    /\ last_call' = [op |-> "quadkey", input |-> NoFormat, z |-> zoom, a |-> a, b |-> b,
                     qa |-> tile_to_quadkey(a[1], a[2], zoom),
                     qb |-> tile_to_quadkey(b[1], b[2], zoom)]
    /\ UNCHANGED <<provider_extension, provider_is_tms, downloader_is_tms>>
    /\ UNCHANGED <<engineVars, appVars, callVars, raceVars, shardVars>>

\* one call per behaviour
NextQuadkey ==
    /\ last_call = None
    /\ \E zoom \in 0..MaxZoom :
           \E a \in (0..(Pow2(zoom) - 1)) \X (0..(Pow2(zoom) - 1)),
              b \in (0..(Pow2(zoom) - 1)) \X (0..(Pow2(zoom) - 1)) : QuadkeyCall(a, b, zoom)

SpecQuadkey == InitCall /\ [][NextQuadkey]_vars

(***************************************************************************)
(* TileMath.calculate_tiles_in_bbox on its own.  An edge of the bbox is    *)
(* given by its fractional tile coordinate in units of 1/Scale of a tile   *)
(* (the x_tile, y_tile that latlon_to_tile computes before rounding), so   *)
(* an edge lies exactly on the boundary k when it is k * Scale.            *)
(***************************************************************************)
Scale == 2

\* int(v): the floor of a non-negative coordinate.  below: the float
\* computed for a row boundary (log/tan of the latitude) came out just
\* under the integer, so int() gives the row before it; x_tile is exact
floor_tile(f, below) ==
    IF f % Scale = 0 /\ below /\ f > 0 THEN (f \div Scale) - 1 ELSE f \div Scale

\* math.ceil(v - 1e-10): the integer itself on a boundary, the next integer
\* otherwise (1e-10 is below the resolution of the coordinates)
ceil_tile(f) == (f + Scale - 1) \div Scale

\* calculate_tiles_in_bbox: the upper left corner is floored, the lower
\* right corner is ceiled, both are clamped to [0, n - 1] and put in order;
\* every (x, y) of the two ranges is emitted
calculate_tiles_in_bbox(west, south, east, north, zoom, is_tms, below) ==
    LET Min2(a, b) == IF a < b THEN a ELSE b
        Max2(a, b) == IF a > b THEN a ELSE b
        max_valid_tile == Pow2(zoom) - 1
        min_x0 == Max2(0, floor_tile(west, FALSE))
        min_y0 == Max2(0, latlon_to_tile(floor_tile(north, below), zoom, is_tms))
        max_x0 == Min2(max_valid_tile, ceil_tile(east))
        max_y0 == Min2(max_valid_tile, latlon_to_tile(ceil_tile(south), zoom, is_tms))
        min_x  == Min2(min_x0, max_x0)
        max_x  == Max2(min_x0, max_x0)
        min_y  == Min2(min_y0, max_y0)
        max_y  == Max2(min_y0, max_y0)
    IN  (min_x..max_x) \X (min_y..max_y)

BboxCall(west, south, east, north, zoom, is_tms, below) ==
    /\ last_call' = [op |-> "bbox", input |-> NoFormat, zoom |-> zoom, is_tms |-> is_tms,
                     west |-> west, south |-> south, east |-> east, north |-> north,
                     tiles |-> calculate_tiles_in_bbox(west, south, east, north,
                                                       zoom, is_tms, below)]
    /\ UNCHANGED <<provider_extension, provider_is_tms, downloader_is_tms>>
    /\ UNCHANGED <<engineVars, appVars, callVars, raceVars, shardVars>>

\* one call per behaviour; west < east over the whole width, north above
\* south strictly inside the latitudes that latlon_to_tile clamps
NextBbox ==
    /\ last_call = None
    /\ \E zoom \in 0..MaxZoom, is_tms \in BOOLEAN, below \in BOOLEAN :
           \E west \in 0..(Pow2(zoom) * Scale), east \in 0..(Pow2(zoom) * Scale),
              north \in 1..(Pow2(zoom) * Scale - 1), south \in 1..(Pow2(zoom) * Scale - 1) :
               /\ west < east
               /\ north < south
               /\ BboxCall(west, south, east, north, zoom, is_tms, below)

SpecBbox == InitCall /\ [][NextBbox]_vars

(***************************************************************************)
(* Properties.                                                             *)
(***************************************************************************)
Sum == downloaded_count + failed_count + skipped_count

\* a worker that holds a task it has not finished and not given back
InFlight(w) ==
    /\ wtask[w] # None
    /\ wpc[w] \in {"got", "attempt", "wait_attempt", "chunk", "wait_chunk",
                   "store", "mark", "backoff", "failed"}

Holders(t) == Cardinality({ w \in Workers : InFlight(w) /\ wtask[w] = t })

\* C1: at every reachable state of a run, also while add_tasks_for_bbox is
\* still enumerating and workers already mark tiles,
\* downloaded_count + failed_count + skipped_count <= total_tasks.
C1_SumWithinTotal == Sum <= total_tasks

\* C2: whatever pause()/resume() calls interleave with the workers, each tile
\* causes at most one increment of the three counters, so their sum is the
\* number of distinct tiles processed.
C2_NoDoubleCount ==
    /\ \A t \in Tiles : counted[t] <= 1
    /\ Sum = Cardinality({ t \in Tiles : counted[t] > 0 })

\* C3: a pause never loses a tile: no tile is marked skipped or failed only
\* because the run was paused while a worker held it.
C3_PauseLosesNoTile ==
    \A e \in mark_log : ~(e[2] \in {"skipped", "failed"} /\ e[3] = "pause")

\* C4: at every state a tile is held at most once across the task queue and
\* the workers' in-flight tasks (a worker that puts its task back abandons it).
C4_HeldAtMostOnce == \A t \in Tiles : InQueue(t) + Holders(t) <= 1

CleanComplete ==
    /\ enum_pc = "done"
    /\ task_queue = <<>>
    /\ total_tasks = Cardinality(Tiles)
    /\ downloaded_count = total_tasks
    /\ \A t \in Tiles : sink[t] = NumChunks

C8_MarkIdempotent ==
    \A t \in Tiles :
        LET L1 == mark_tile_processed(CurrentLedger, t, "success")
            L2 == mark_tile_processed(L1, t, "success")
        IN  /\ L2.downloaded_count = L1.downloaded_count
            /\ L2.failed_count = L1.failed_count
            /\ L2.skipped_count = L1.skipped_count

\* C9: when the key is already in the processed set, _mark_tile_processed with
\* 'skipped' adds exactly one to skipped_count and with 'success' or 'failed'
\* changes no counter; the processed set and the stored rows stay as they were.
C9_MarkOfPresentKey ==
    (last_mark # None /\ last_mark.tile \in last_mark.before.processed_tiles) =>
        /\ CurrentLedger = IF last_mark.status = "skipped"
                           THEN [last_mark.before EXCEPT !.skipped_count = @ + 1]
                           ELSE last_mark.before
        /\ ledger = last_mark.rows

C9_Witness ==
    /\ last_mark # None
    /\ last_mark.tile \in last_mark.before.processed_tiles
    /\ last_mark.status = "skipped"
    /\ skipped_count = last_mark.before.skipped_count + 1

C11_PerTileOrder ==
    /\ \A e \in mark_log : e[2] = "success" => sink[e[1]] > 0
    /\ progress # None =>
          /\ \E e \in mark_log : e[1] = progress.tile
          /\ progress.processed <= Sum

C11_Witness ==
    /\ progress # None
    /\ <<progress.tile, "success", "fetched">> \in mark_log
    /\ sink[progress.tile] > 0
    /\ progress.processed >= 1

\* C12: the statistics returned by cancel() are final: once cancel() has
\* returned, downloaded_count, failed_count and skipped_count keep the values
\* of the returned snapshot.
C12_CancelStatsFinal ==
    cancel_stats # None =>
        /\ cancel_stats.downloaded = downloaded_count
        /\ cancel_stats.failed = failed_count
        /\ cancel_stats.skipped = skipped_count

\* C13: cancel leaves a valid, recoverable ledger and sink: once cancel() has
\* returned and every worker has stopped, the ledger holds every tile that a
\* flush was given before the connection was closed, every tile of the ledger
\* is committed in the sink, and the MBTiles sink holds nothing that was
\* written after the commit of cancel().
C13_CancelKeepsLedger ==
    (cancel_pc = "done" /\ \A w \in Workers : wpc[w] \in {"idle", "ended", "returned"}) =>
        /\ flushed \subseteq ledger
        /\ \A t \in ledger : sink_committed[t] > 0
        /\ is_mbtiles => sink = sink_committed

\* C14: resume wakes every parked worker and work continues: a worker that
\* waits on pause_event and is woken by resume() goes on in its task loop; its
\* thread does not end.
C14_ResumeWakesWorkers ==
    [][\A w \in Workers :
          (/\ wpc[w] \in {"wait_top", "wait_got", "wait_attempt", "wait_chunk", "wait_backoff"}
           /\ pause_event
           /\ wpc'[w] # wpc[w]) => wpc'[w] # "returned"]_vars

\* C15: for every tile put into an MBTiles sink the stored tile_row is the
\* TMS row 2^z - 1 - y_tile of the tile (y_tile its Slippy row), with is_tms
\* set as with is_tms clear.
C15_TileRowIsTms ==
    last_put # None => last_put.tile_row = Pow2(last_put.z) - 1 - last_put.y_tile

\* C16: zoom filter: for every content of the ledger, every scan order and
\* every zmin <= zmax, _load_processed_tiles_for_zoom_range returns exactly
\* the keys of the ledger with zmin <= z <= zmax, whatever the number of rows
\* relative to the page size.
C16_ZoomFilter ==
    last_load # None =>
        last_load.result = { t \in last_load.rows : last_load.zmin <= t[3] /\ t[3] <= last_load.zmax }

C16_Witness ==
    /\ last_load # None
    /\ Cardinality(last_load.result) > batch_size
    /\ last_load.result # last_load.rows

\* C17: the sink is finalised on normal completion: when a run without cancel
\* has processed every enumerated tile, every INSERT into the MBTiles sink is
\* committed and the connection is closed.
C17_SinkFinalised ==
    (is_mbtiles /\ cancel_pc = "none" /\ RunComplete) =>
        /\ sink_committed = sink
        /\ ~mbtiles_open

\* C18: a snapshot with completed=true is delivered exactly once per run, on
\* completion as on cancellation, and only when every enumerated tile has been
\* counted: never while a worker still holds a tile.
C18_FinalSnapshotOnce ==
    /\ Len(finals) <= 1
    /\ \A i \in 1..Len(finals) :
          finals[i].downloaded + finals[i].failed + finals[i].skipped = finals[i].total
    /\ (cancel_pc = "done" /\ monitor_pc = "done") => Len(finals) = 1

\* C19: BatchDownloader.download_bbox returns the statistics of the finished
\* run: in what it returns every enumerated tile is counted as downloaded,
\* failed or skipped.
C19_ReturnsFinishedRun ==
    batch_stats # None =>
        batch_stats.downloaded + batch_stats.failed + batch_stats.skipped = batch_stats.total

\* C20: a second run with identical parameters after a completed first run
\* downloads nothing: no GET, downloaded_count = 0, every tile of the
\* enumeration counted as skipped.  The endpoint always answers 200, so the
\* first run stored every tile.
C20_SecondRunSkipsAll ==
    (server = "ok" /\ run_no = 2 /\ prev_run = "completed" /\ cancel_pc = "none" /\ RunComplete) =>
        /\ \A t \in Tiles : gets[t] = 0
        /\ downloaded_count = 0
        /\ skipped_count = Cardinality(Tiles)

\* C21: while the pause flag is set the task source enqueues no task: a step
\* of the enumeration loop of add_tasks_for_bbox taken while pause_event is
\* clear leaves task_queue as it is.
C21_PausedSourceIsSilent ==
    [][(~pause_event /\ enum_pc = "tile" /\ enum_idx' = enum_idx + 1) => task_queue' = task_queue]_vars

\* C22: cancel() drains the task channel: when cancel() has returned the task
\* queue is empty.
C22_CancelDrainsQueue == cancel_pc = "done" => task_queue = <<>>

\* C23: the task channel is bounded: the capacity does not depend on the
\* request, so the queue never holds the whole enumeration of the request;
\* the task source blocks before.
C23_QueueBounded == Len(task_queue) < Cardinality(Tiles)

\* C24: the counters are updated atomically: when the workers have marked
\* their distinct tiles concurrently no increment is lost: the sum of the
\* three counters is the number of marks of new tiles and total_bytes is the
\* sum of the sizes of the stored tiles.
C24_NoLostUpdate ==
    (\A w \in Workers : wpc[w] = "marked") =>
        /\ downloaded_count + failed_count + skipped_count = Cardinality(mark_log)
        /\ total_bytes = NumChunks * Cardinality({ w \in Workers : wstatus[w] = "success" })

\* C25: in zoom-sharded MBTiles mode at most one connection is ever opened
\* per zoom level, also when several workers make the first put of a zoom
\* concurrently, and every INSERT is executed on the connection that is kept
\* in mbtiles_connections, which cancel() later commits and closes.
C25_OneConnectionPerZoom ==
    /\ \A z \in ZoomRange : conn_opened[z] <= 1
    /\ \A r \in conn_rows : in_dict(r[2], mbtiles_connections)

\* C26: batched commit: whenever the transaction counter reaches a multiple
\* of transaction_batch_size, every INSERT of a put counted so far is
\* committed, in single-file mode and in zoom-sharded mode alike.
C26_BatchedCommit ==
    [][(/\ transaction_counter' = transaction_counter + 1
        /\ transaction_counter' % transaction_batch_size = 0)
       => \A e \in mark_log' : e[2] = "success" => sink_committed'[e[1]] = NumChunks]_vars

\* C27: per-tile failures never abort the run: an exception raised while a
\* worker handles one tile (here: by the progress callback) does not leave
\* the loop of the worker and does not terminate the worker thread.
C27_WorkerSurvivesTile == \A w \in Workers : wpc[w] \notin {"raised", "crashed"}

C29_OnlyCompleteTiles ==
    /\ \A t \in Tiles : sink[t] \in {0, NumChunks}
    /\ \A e \in mark_log : e[2] = "success" => sink[e[1]] = NumChunks

\* C30: a task whose z is outside [provider.min_zoom, provider.max_zoom] is
\* marked skipped and the worker goes on with the next task: no GET is issued
\* for it, nothing is written to the sink for it, its only mark is skipped by
\* the zoom check, and the run still processes every other tile.
C30_ZoomSkip ==
    \A t \in Tiles :
        (t[3] < provider_zoom(provider_name)[1] \/ t[3] > provider_zoom(provider_name)[2]) =>
            /\ gets[t] = 0
            /\ sink[t] = 0
            /\ \A e \in mark_log : e[1] = t => (e[2] = "skipped" /\ e[3] = "zoom")
            /\ RunComplete =>
                  /\ <<t, "skipped", "zoom">> \in mark_log
                  /\ \A u \in Tiles : \E e \in mark_log : e[1] = u

\* a finished Bing run: the tile of zoom 0 was skipped by the zoom check and
\* a tile of zoom 1 was fetched and stored afterwards
C30_Witness ==
    /\ RunComplete
    /\ \E t \in Tiles : <<t, "skipped", "zoom">> \in mark_log /\ gets[t] = 0
    /\ \E u \in Tiles : sink[u] = NumChunks /\ gets[u] = 1

\* C31: a tile whose fetch is interrupted by the stop flag (cancel during an
\* attempt or during the chunk read) is not recorded in any category: it is
\* not marked, so it is not in processed_tiles and no counter changed for it.
C31_StoppedTileUnrecorded ==
    \A e \in mark_log : e[3] = "stop" => (e[1] \notin processed_tiles /\ counted[e[1]] = 0)

\* C32: the ledger records each tile with the status it was marked with:
\* after a flush, a tile that _save_progress was given is a row of the ledger
\* whose status is the status of its mark (failed for a tile marked failed,
\* skipped for a tile marked skipped).
C32_LedgerKeepsStatus ==
    \A e \in mark_log : e[1] \in flushed =>
        (e[1] \in ledger /\ row_status(e[1]) = e[2])

\* C33: flush is complete: when _save_progress has returned (there is no
\* lock contention: the progress db has one connection), every key of the
\* processed set it was given is a committed row of processed_tiles.
C33_FlushComplete == flushed \subseteq ledger

\* C34: the in-memory completed set is never dropped mid-run: between
\* construction and cancel or completion no step removes a key from
\* processed_tiles, whatever add_task, add_tasks_for_bbox and marks run.
C34_ProcessedOnlyGrows == [][processed_tiles \subseteq processed_tiles']_vars

\* C35: POST /download while a run is current supersedes it by a full cancel
\* followed by a start: when the new TileDownloader is constructed no worker
\* of the old run still holds a tile it could write, and the sink of the old
\* run was committed, so no stored tile is lost by the step.
C35_SupersedeIsCancel ==
    [][(run_no' = run_no + 1 /\ prev_run' = "superseded") =>
         /\ \A w \in Workers : wtask[w] = None
         /\ \A t \in Tiles : sink'[t] = sink[t]]_vars

\* C36: a registered provider descriptor is immutable: no step other than
\* the registration itself (constructing a TileDownloader with any is_tms
\* or tile_format included) changes its extension or its is_tms
C36_DescriptorImmutable ==
    [][last_call'.op # "register" =>
           /\ provider_extension' = provider_extension
           /\ provider_is_tms' = provider_is_tms]_vars

\* C37: the filesystem path of an enumerated tile carries the TMS row
\* 2^z - 1 - y_slippy in a run declared TMS and the Slippy row y_slippy
\* otherwise, for every provider
C37_PathRowFollowsScheme ==
    (last_call # None /\ last_call.op = "path") =>
        last_call.path[3] = IF last_call.is_tms
                            THEN Pow2(last_call.z) - 1 - last_call.y_tile
                            ELSE last_call.y_tile

\* C40: whichever way a JPEG spelling reaches the provider (tile_format or
\* URL suffix at construction, set_tile_format later, in any letter case),
\* provider.extension holds the one spelling 'jpg'
C40_JpegCanonical ==
    (last_call # None /\ last_call.op \in {"register", "init"}
        /\ last_call.input \in {"jpg", "jpeg", "JPG", "JPEG", "Jpeg"}) => provider_extension = "jpg"

\* C38: tile_to_quadkey(x, y, z) is a string of length z over the digits
\* 0-3 whose i-th digit encodes bit z-i of x (value 1) and of y (value 2);
\* two different tiles of one zoom get different quadkeys, and
\* tile_to_quadkey(3, 5, 3) = "213"
C38_QuadkeyStandard ==
    (last_call # None /\ last_call.op = "quadkey") =>
        LET z  == last_call.z
            x  == last_call.a[1]
            y  == last_call.a[2]
            qa == last_call.qa
        IN  /\ Len(qa) = z
            /\ \A i \in 1..z :
                   LET v == ((x \div (2 ^ (z - i))) % 2) + 2 * ((y \div (2 ^ (z - i))) % 2)
                   IN  qa[i] = CASE v = 0 -> "0" [] v = 1 -> "1" [] v = 2 -> "2" [] v = 3 -> "3"
            /\ (last_call.a # last_call.b => qa # last_call.qb)
            /\ ((z = 3 /\ x = 3 /\ y = 5) => qa = <<"2", "1", "3">>)

C38_Witness ==
    /\ last_call # None /\ last_call.op = "quadkey"
    /\ last_call.z = 3 /\ last_call.a = <<3, 5>> /\ last_call.b = <<5, 3>>
    /\ last_call.qa = <<"2", "1", "3">>

\* C39: when an edge of the bbox lies exactly on the tile boundary k, the
\* tile touching it from outside is emitted on the west and north sides
\* (column, row k - 1) and not emitted on the east and south sides: the
\* largest emitted x (y) is k - 1
C39_EdgePolicy ==
    (last_call # None /\ last_call.op = "bbox" /\ ~last_call.is_tms) =>
        LET xs == { t[1] : t \in last_call.tiles }
            ys == { t[2] : t \in last_call.tiles }
            n  == 2 ^ last_call.zoom
        IN  /\ (last_call.west % Scale = 0 /\ last_call.west > 0) =>
                   (last_call.west \div Scale) - 1 \in xs
            /\ (last_call.north % Scale = 0) =>
                   (last_call.north \div Scale) - 1 \in ys
            /\ (last_call.east % Scale = 0) =>
                   \A x \in xs : x <= (last_call.east \div Scale) - 1
            /\ (last_call.south % Scale = 0) =>
                   \A y \in ys : y <= (last_call.south \div Scale) - 1

====
